---- MODULE Spec2Model ----
(***************************************************************************)
(* Result converters of anywidget-graph (Cypher/GQL, Gremlin, SPARQL,      *)
(* GraphQL): each convert call is modelled as a state machine over its     *)
(* accumulators (the insertion-ordered `nodes` dict, the `edges` list) and *)
(* an explicit work stack that replaces the recursion of the source.       *)
(*                                                                         *)
(* Python values are tagged records, one payload field per tag:            *)
(*   None          [t |-> "none"]                                          *)
(*   int           [t |-> "int",   n |-> 1]                                *)
(*   str           [t |-> "str",   s |-> "a"]                              *)
(*   list / tuple  [t |-> "list",  v |-> <<...>>] / [t |-> "tuple", ...]   *)
(*   dict          [t |-> "dict",  kv |-> <<[k |-> "id", v |-> ...]>>,     *)
(*                                 addr |-> id() of the object]            *)
(*   other object  [t |-> "obj",   a |-> [attribute name -> value],        *)
(*                                 addr |-> id() of the object]            *)
(* Dicts built by the converters (output nodes and edges) are functions    *)
(* from key strings to values: their key order is never observed.          *)
(***************************************************************************)
EXTENDS Integers, Sequences, FiniteSets, TLC

\* one convert call: the converter, its argument, its configuration, its locals
VARIABLES conv, input, cfg, recs, todo, nodes, edges, labels, pc, out
\* one fetch_schema call of a database backend
VARIABLES backend, db, ncall, pending, node_types, edge_types, spc, sret
\* one Graph widget: its click callbacks, its trait observers, its traits
VARIABLES _node_click_callbacks, node_observers, _edge_click_callbacks,
          edge_observers, selected_node, selected_edge, calls
\* several calls on one converter: the call that waits, the number of the call
\* that runs, the stage of the scenario, the results of the calls made alone
VARIABLES other, turn, phase, solo
\* one Graph widget and its Python backend: how it was built, its data traits,
\* its query traits, the handler's position, the execute calls made so far
VARIABLES ctor, graph_nodes, graph_edges, _backend, _execute_query, query_running,
          query_error, qpc, executions

ConvVars == <<conv, input, cfg, recs, todo, nodes, edges, labels, pc, out>>
SchemaVars == <<backend, db, ncall, pending, node_types, edge_types, spc, sret>>
WidgetVars == <<_node_click_callbacks, node_observers, _edge_click_callbacks,
                edge_observers, selected_node, selected_edge, calls>>
\* everything a convert call never touches
PairVars == <<other, turn, phase, solo>>
QueryVars == <<ctor, graph_nodes, graph_edges, _backend, _execute_query, query_running,
               query_error, qpc, executions>>
Ext == <<SchemaVars, WidgetVars, PairVars, QueryVars>>

vars == <<ConvVars, Ext>>

(* ------------------------------ bounds -------------------------------- *)
\* most top-level values in one Cypher or Gremlin input
MaxVals == 2

(* ------------------------- Python value helpers ----------------------- *)
None == [t |-> "none"]
I(n) == [t |-> "int", n |-> n]
S(s) == [t |-> "str", s |-> s]
L(seq) == [t |-> "list", v |-> seq]
T(seq) == [t |-> "tuple", v |-> seq]
KV(k, v) == [k |-> k, v |-> v]
D(addr, kv) == [t |-> "dict", kv |-> kv, addr |-> addr]
O(addr, a) == [t |-> "obj", a |-> a, addr |-> addr]

Range(f) == {f[x] : x \in DOMAIN f}


IsDict(v) == v.t = "dict"
IsSeq(v) == v.t \in {"list", "tuple"}

\* `k in d` for a dict d
HasKey(d, k) == \E i \in 1..Len(d.kv) : d.kv[i].k = k
\* d[k]
Get(d, k) == d.kv[CHOOSE i \in 1..Len(d.kv) : d.kv[i].k = k].v
\* d.get(k, default)
GetOr(d, k, default) == IF HasKey(d, k) THEN Get(d, k) ELSE default
\* the mapping a dict holds, as update() and dict() see it
AsMap(d) == [k \in {d.kv[i].k : i \in 1..Len(d.kv)} |-> Get(d, k)]
\* list(d.values())
Values(d) == [i \in 1..Len(d.kv) |-> d.kv[i].v]

\* result.update(m): the keys of m override
Update(result, m) == m @@ result

\* hasattr(v, name); dicts, lists, tuples and strings carry their built-in methods
DictAttrs == {"items", "get", "keys", "values", "__iter__", "__getitem__"}
SeqAttrs == {"__iter__", "__getitem__"}
HasAttr(v, name) ==
    CASE v.t = "obj" -> name \in DOMAIN v.a
      [] v.t = "dict" -> name \in DictAttrs
      [] v.t \in {"list", "tuple", "str"} -> name \in SeqAttrs
      [] OTHER -> FALSE

\* str(v) for the scalars that occur as identifiers
Str(v) ==
    CASE v.t = "str" -> v.s
      [] v.t = "int" -> ToString(v.n)
      [] v.t = "none" -> "None"

\* bool(v): Python truthiness
Truthy(v) ==
    CASE v.t = "none" -> FALSE
      [] v.t = "int" -> v.n # 0
      [] v.t = "str" -> v.s # ""
      [] v.t \in {"list", "tuple"} -> v.v # <<>>
      [] v.t = "dict" -> v.kv # <<>>
      [] OTHER -> TRUE

(* ---------------- insertion-ordered dict of output nodes -------------- *)
\* `nodes` is a sequence of [k |-> key, v |-> node]; a key keeps the position of
\* its first insertion
InNodes(ns, k) == \E i \in 1..Len(ns) : ns[i].k = k
NodeAt(ns, k) == ns[CHOOSE i \in 1..Len(ns) : ns[i].k = k].v
\* nodes[k] = v
SetNode(ns, k, v) ==
    IF InNodes(ns, k)
    THEN [i \in 1..Len(ns) |-> IF ns[i].k = k THEN KV(k, v) ELSE ns[i]]
    ELSE Append(ns, KV(k, v))
\* list(nodes.values())
NodeValues(ns) == [i \in 1..Len(ns) |-> ns[i].v]

(* --------------------------- converters/common.py --------------------- *)
is_node(obj) ==
    \/ HasAttr(obj, "labels") /\ HasAttr(obj, "element_id")
    \/ HasAttr(obj, "labels") /\ HasAttr(obj, "properties")
    \/ IsDict(obj) /\ HasKey(obj, "id")

is_relationship(obj) ==
    \/ HasAttr(obj, "type") /\ HasAttr(obj, "start_node")
    \/ HasAttr(obj, "type") /\ HasAttr(obj, "source") /\ HasAttr(obj, "target")
    \/ IsDict(obj) /\ HasKey(obj, "source") /\ HasKey(obj, "target")

get_node_id(node) ==
    IF HasAttr(node, "element_id") THEN Str(node.a["element_id"])
    ELSE IF HasAttr(node, "id") THEN Str(node.a["id"])
    ELSE IF IsDict(node) THEN Str(GetOr(node, "id", I(node.addr)))
    ELSE Str(I(node.addr))

\* list(node.labels) if it is iterable, else [node.labels]
LabelList(lbls) == IF IsSeq(lbls) THEN lbls.v ELSE <<lbls>>

\* the label / labels entries node_to_dict adds
NodeLabelPart(node) ==
    IF HasAttr(node, "labels") /\ LabelList(node.a["labels"]) # <<>>
    THEN ("label" :> Head(LabelList(node.a["labels"])))
         @@ ("labels" :> L(LabelList(node.a["labels"])))
    ELSE <<>>

\* the mapping node_to_dict copies onto the result
NodePropPart(node) ==
    IF HasAttr(node, "properties") THEN AsMap(node.a["properties"])
    ELSE IF HasAttr(node, "items")
         THEN (IF IsDict(node) THEN AsMap(node) ELSE AsMap(node.a["items"]))
    ELSE <<>>

\* "label" falls back to the "name" entry
NameAsLabel(result) ==
    IF "label" \notin DOMAIN result /\ "name" \in DOMAIN result
    THEN ("label" :> result["name"]) @@ result
    ELSE result

node_to_dict(node) ==
    NameAsLabel(Update(Update("id" :> S(get_node_id(node)), NodeLabelPart(node)),
                       NodePropPart(node)))

RelEndsPart(rel) ==
    IF HasAttr(rel, "start_node") /\ HasAttr(rel, "end_node")
    THEN ("source" :> S(get_node_id(rel.a["start_node"])))
         @@ ("target" :> S(get_node_id(rel.a["end_node"])))
    ELSE IF HasAttr(rel, "source") /\ HasAttr(rel, "target")
    THEN ("source" :> S(get_node_id(rel.a["source"])))
         @@ ("target" :> S(get_node_id(rel.a["target"])))
    ELSE IF IsDict(rel)
    THEN ("source" :> S(Str(GetOr(rel, "source", S("")))))
         @@ ("target" :> S(Str(GetOr(rel, "target", S("")))))
    ELSE <<>>

RelLabelPart(rel) ==
    IF HasAttr(rel, "type") THEN "label" :> S(Str(rel.a["type"]))
    ELSE IF IsDict(rel) /\ HasKey(rel, "type") THEN "label" :> S(Str(Get(rel, "type")))
    ELSE IF IsDict(rel) /\ HasKey(rel, "label") THEN "label" :> S(Str(Get(rel, "label")))
    ELSE <<>>

RelPropPart(rel) ==
    IF HasAttr(rel, "properties") THEN AsMap(rel.a["properties"])
    ELSE IF HasAttr(rel, "items") /\ ~IsDict(rel) THEN AsMap(rel.a["items"])
    ELSE <<>>

relationship_to_dict(rel) ==
    Update(Update(RelEndsPart(rel), RelLabelPart(rel)), RelPropPart(rel))

\* PutIfAbsent without the membership test: a later representation replaces the
\* stored one
PutLastWins(ns, node) == SetNode(ns, get_node_id(node), node_to_dict(node))

\* if node_id not in nodes: nodes[node_id] = node_to_dict(node)
PutIfAbsent(ns, node) ==
    IF InNodes(ns, get_node_id(node)) THEN ns
    ELSE SetNode(ns, get_node_id(node), node_to_dict(node))

RECURSIVE PutAllIfAbsent(_, _)
PutAllIfAbsent(ns, s) ==
    IF s = <<>> THEN ns ELSE PutAllIfAbsent(PutIfAbsent(ns, Head(s)), Tail(s))

(* --------------------------- converters/cypher.py --------------------- *)
\* _extract_items, reduced to the values convert() uses
ExtractValues(record) ==
    IF HasAttr(record, "items")
    THEN (IF IsDict(record) THEN Values(record) ELSE Values(record.a["items"]))
    ELSE IF HasAttr(record, "data") THEN Values(record.a["data"])
    ELSE <<>>

\* records = list(result) if hasattr(result, "__iter__") else [result]
\* (iterating a dict yields its keys)
CypherRecords(result) ==
    IF HasAttr(result, "__iter__")
    THEN (IF IsSeq(result) THEN result.v
          ELSE IF IsDict(result) THEN [i \in 1..Len(result.kv) |-> S(result.kv[i].k)]
          ELSE result.a["__iter__"].v)
    ELSE <<result>>

IsPath(value) == HasAttr(value, "nodes") /\ HasAttr(value, "relationships")


\* Values a Cypher result can hold.  Each entry is one Python object (its own
\* addr); using an entry twice is the same object met twice.
CyNodeA == O(11, [element_id |-> S("a"), labels |-> L(<<S("P")>>),
                  properties |-> D(12, <<KV("id", S("x"))>>)])
CyNodeB == O(13, [element_id |-> S("b"), labels |-> L(<<S("P"), S("Q")>>),
                  properties |-> D(14, <<KV("id", S("x")), KV("name", S("Bo"))>>)])
\* a second representation of element "a", with other fields (driver Node: items, no properties)
CyNodeA2 == O(15, [element_id |-> S("a"), id |-> I(7), labels |-> L(<<>>),
                   items |-> D(16, <<KV("name", S("Al")), KV("age", I(3))>>)])
CyDict1 == D(17, <<KV("id", I(1)), KV("labels", L(<<S("Person")>>)),
                   KV("properties", D(18, <<KV("name", S("Alice"))>>))>>)
\* a later representation of id 1 carrying more properties
CyDict1b == D(19, <<KV("id", S("1")), KV("name", S("Bob")), KV("age", I(3))>>)
CyRelObj == O(20, [type |-> S("KNOWS"), start_node |-> CyNodeA, end_node |-> CyNodeB,
                   properties |-> D(21, <<KV("since", I(1))>>)])
\* a relationship object that exposes no end_node
CyRelHalf == O(22, [type |-> S("KNOWS"), start_node |-> CyNodeA])
CyRelDict == D(23, <<KV("source", I(1)), KV("target", I(2)), KV("type", S("T")),
                     KV("weight", I(3))>>)
\* a mapping with id, source and target: node and relationship shape at once
CyBoth == D(24, <<KV("id", I(5)), KV("source", I(1)), KV("target", I(2))>>)
CyPathObj == O(25, [nodes |-> L(<<CyNodeA, CyDict1b, CyNodeA2>>),
                    relationships |-> L(<<CyRelObj, CyRelDict, CyRelObj>>)])
CyNested == L(<<CyDict1b, CyRelDict, T(<<CyDict1, CyRelObj, None>>)>>)

CyPool ==
    << None, S("scalar"), CyNodeA, CyNodeB, CyNodeA2, CyDict1, CyDict1b, CyRelObj,
       CyRelHalf, CyRelDict, CyBoth, CyPathObj, CyNested >>

\* all sequences over 1..n of length at most MaxVals
IndexSeqs(n) == UNION {[1..len -> 1..n] : len \in 0..MaxVals}

\* a plain-mapping record holding the given values
CyRecord(addr, vals) == D(addr, [i \in 1..Len(vals) |-> KV(ToString(i), vals[i])])

\* a driver record: an object exposing items() and data(), not iterable
CyDriverRecord(vals) ==
    O(110, [items |-> D(111, [i \in 1..Len(vals) |-> KV(ToString(i), vals[i])]),
            data |-> D(112, <<>>)])
\* a record object that only exposes data()
CyDataRecord(vals) == O(113, [data |-> D(114, [i \in 1..Len(vals) |-> KV(ToString(i), vals[i])])])

\* a single record given in place of the list
CySingleRecords ==
    UNION {{CyRecord(100, <<CyPool[i]>>), CyDriverRecord(<<CyPool[i]>>),
            CyDataRecord(<<CyPool[i]>>)} : i \in 1..Len(CyPool)}

\* the results convert() is given: None, a single record, or a list of records;
\* the values are either all columns of one record or one record each
CyInputs ==
    {None}
    \cup CySingleRecords
    \cup {L(<<r>>) : r \in CySingleRecords}
    \cup {L(<<CyRecord(100, [i \in 1..Len(ix) |-> CyPool[ix[i]]])>>) : ix \in IndexSeqs(Len(CyPool))}
    \cup {L([i \in 1..Len(ix) |-> CyRecord(100 + i, <<CyPool[ix[i]]>>)]) : ix \in IndexSeqs(Len(CyPool))}

NoCfg == [none |-> TRUE]

\* no fetch_schema call is under way
SchemaIdle ==
    /\ backend = "none" /\ db = None /\ ncall = 0 /\ pending = <<>>
    /\ node_types = <<>> /\ edge_types = <<>> /\ spc = "idle" /\ sret = None
\* no widget is under observation
WidgetIdle ==
    /\ _node_click_callbacks = <<>> /\ node_observers = 0
    /\ _edge_click_callbacks = <<>> /\ edge_observers = 0
    /\ selected_node = None /\ selected_edge = None /\ calls = <<>>
\* a single call is made
PairIdle == other = None /\ turn = 1 /\ phase = "single" /\ solo = None
\* no widget data or query is under observation
QueryIdle ==
    /\ ctor = None /\ graph_nodes = <<>> /\ graph_edges = <<>> /\ _backend = None
    /\ _execute_query = 0 /\ query_running = FALSE /\ query_error = ""
    /\ qpc = "none" /\ executions = 0
ExtIdle == SchemaIdle /\ WidgetIdle /\ PairIdle /\ QueryIdle
\* no convert call is under way
ConvIdle ==
    /\ conv = "none" /\ input = None /\ cfg = NoCfg /\ recs = <<>> /\ todo = <<>>
    /\ nodes = <<>> /\ edges = <<>> /\ labels = <<>> /\ pc = "idle" /\ out = None

\* CypherConverter.convert up to the loop over the records
CyInit ==
    /\ conv = "cypher"
    /\ input \in CyInputs
    /\ cfg = NoCfg
    /\ recs = CypherRecords(input)
    /\ todo = <<>>
    /\ nodes = <<>>
    /\ edges = <<>>
    /\ labels = <<>>
    /\ pc = "run"
    /\ out = None
    /\ ExtIdle

CyRunning == conv = "cypher" /\ pc = "run"

\* for record in records: for _key, value in self._extract_items(record)
CyNextRecord ==
    /\ CyRunning /\ todo = <<>> /\ recs # <<>>
    /\ todo' = ExtractValues(Head(recs))
    /\ recs' = Tail(recs)
    /\ UNCHANGED <<Ext, conv, input, cfg, nodes, edges, labels, pc, out>>

\* _process_value: value is None
CyNone ==
    /\ CyRunning /\ todo # <<>> /\ Head(todo) = None
    /\ todo' = Tail(todo)
    /\ UNCHANGED <<Ext, conv, input, cfg, recs, nodes, edges, labels, pc, out>>

\* CyPath with the loop over value.relationships left out
CyPathNodesOnly ==
    /\ CyRunning /\ todo # <<>> /\ Head(todo) # None
    /\ IsPath(Head(todo))
    /\ nodes' = PutAllIfAbsent(nodes, Head(todo).a["nodes"].v)
    /\ todo' = Tail(todo)
    /\ UNCHANGED <<Ext, conv, input, cfg, recs, edges, labels, pc, out>>

\* _process_value: a path (has nodes and relationships)
CyPath ==
    /\ CyRunning /\ todo # <<>> /\ Head(todo) # None
    /\ IsPath(Head(todo))
    /\ nodes' = PutAllIfAbsent(nodes, Head(todo).a["nodes"].v)
    /\ edges' = edges \o [i \in 1..Len(Head(todo).a["relationships"].v) |->
                             relationship_to_dict(Head(todo).a["relationships"].v[i])]
    /\ todo' = Tail(todo)
    /\ UNCHANGED <<Ext, conv, input, cfg, recs, labels, pc, out>>

\* _process_value: an individual node
CyNode ==
    /\ CyRunning /\ todo # <<>> /\ Head(todo) # None
    /\ ~IsPath(Head(todo)) /\ is_node(Head(todo))
    /\ nodes' = PutIfAbsent(nodes, Head(todo))
    /\ todo' = Tail(todo)
    /\ UNCHANGED <<Ext, conv, input, cfg, recs, edges, labels, pc, out>>

\* _process_value: an individual relationship
CyRel ==
    /\ CyRunning /\ todo # <<>> /\ Head(todo) # None
    /\ ~IsPath(Head(todo)) /\ ~is_node(Head(todo)) /\ is_relationship(Head(todo))
    /\ edges' = Append(edges, relationship_to_dict(Head(todo)))
    /\ todo' = Tail(todo)
    /\ UNCHANGED <<Ext, conv, input, cfg, recs, nodes, labels, pc, out>>

\* _process_value: a list or tuple, processed element by element
CySeq ==
    /\ CyRunning /\ todo # <<>> /\ Head(todo) # None
    /\ ~IsPath(Head(todo)) /\ ~is_node(Head(todo)) /\ ~is_relationship(Head(todo))
    /\ IsSeq(Head(todo))
    /\ todo' = Head(todo).v \o Tail(todo)
    /\ UNCHANGED <<Ext, conv, input, cfg, recs, nodes, edges, labels, pc, out>>

\* _process_value: anything else falls through
CyIgnore ==
    /\ CyRunning /\ todo # <<>> /\ Head(todo) # None
    /\ ~IsPath(Head(todo)) /\ ~is_node(Head(todo)) /\ ~is_relationship(Head(todo))
    /\ ~IsSeq(Head(todo))
    /\ todo' = Tail(todo)
    /\ UNCHANGED <<Ext, conv, input, cfg, recs, nodes, edges, labels, pc, out>>

\* return {"nodes": list(nodes.values()), "edges": edges}
CyReturn ==
    /\ CyRunning /\ todo = <<>> /\ recs = <<>>
    /\ out' = [nodes |-> NodeValues(nodes), edges |-> edges]
    /\ pc' = "done"
    /\ UNCHANGED <<Ext, conv, input, cfg, recs, todo, nodes, edges, labels>>

CyNext ==
    \/ CyNextRecord \/ CyNone \/ CyPath \/ CyNode \/ CyRel \/ CySeq \/ CyIgnore
    \/ CyReturn

(* --------------------------- backends/grafeo.py ----------------------- *)
\* GrafeoBackend._extract_items, reduced to the values
GrafeoExtractValues(record) ==
    IF HasAttr(record, "items")
    THEN (IF IsDict(record) THEN Values(record) ELSE Values(record.a["items"]))
    ELSE IF HasAttr(record, "data") THEN Values(record.a["data"])
    ELSE <<>>

\* for record in records: for _key, value in items: node, relationship or nothing
RECURSIVE GrafeoFold(_, _, _, _)
GrafeoFold(ns, es, records, vals) ==
    IF vals = <<>>
    THEN (IF records = <<>> THEN <<NodeValues(ns), es>>
          ELSE GrafeoFold(ns, es, Tail(records), GrafeoExtractValues(Head(records))))
    ELSE IF is_node(Head(vals))
    THEN GrafeoFold(PutIfAbsent(ns, Head(vals)), es, records, Tail(vals))
    ELSE IF is_relationship(Head(vals))
    THEN GrafeoFold(ns, Append(es, relationship_to_dict(Head(vals))), records, Tail(vals))
    ELSE GrafeoFold(ns, es, records, Tail(vals))

\* GrafeoBackend._process_result: the pair (nodes, edges)
_process_result(result) == GrafeoFold(<<>>, <<>>, CypherRecords(result), <<>>)

(* --------------------------- converters/gremlin.py -------------------- *)
\* callable(v): a method or function object, modelled by what calling it returns
Callable(v) == HasAttr(v, "__call__")

_is_vertex(obj) ==
    /\ HasAttr(obj, "id") /\ HasAttr(obj, "label")
    /\ ~HasAttr(obj, "outV") /\ ~HasAttr(obj, "inV")

_is_edge(obj) == HasAttr(obj, "outV") /\ HasAttr(obj, "inV")

\* _flatten_value without the length test: any non-empty list gives its first element
FlattenNonEmpty(value) ==
    IF value.t = "list" /\ Len(value.v) >= 1 THEN value.v[1] ELSE value

_flatten_value(value) ==
    IF value.t = "list" /\ Len(value.v) = 1 THEN value.v[1] ELSE value

\* props = x.properties; if callable(props): props = props()
PropsOf(x) ==
    IF Callable(x.a["properties"]) THEN x.a["properties"].a["__call__"]
    ELSE x.a["properties"]

\* what `for prop in props` yields (iterating a dict yields its keys)
IterOf(props) ==
    IF IsSeq(props) THEN props.v
    ELSE IF IsDict(props) THEN [i \in 1..Len(props.kv) |-> S(props.kv[i].k)]
    ELSE <<>>

\* for prop in props: if it has key and value: result[prop.key] = prop.value
RECURSIVE CopyProps(_, _)
CopyProps(result, ps) ==
    IF ps = <<>> THEN result
    ELSE CopyProps(
           IF HasAttr(Head(ps), "key") /\ HasAttr(Head(ps), "value")
           THEN Update(result, Head(ps).a["key"].s :> Head(ps).a["value"])
           ELSE result,
           Tail(ps))

_vertex_to_dict(vertex) ==
    LET result == ("id" :> S(Str(vertex.a["id"]))) @@ ("label" :> S(Str(vertex.a["label"])))
    IN  IF HasAttr(vertex, "properties") /\ HasAttr(PropsOf(vertex), "__iter__")
        THEN CopyProps(result, IterOf(PropsOf(vertex)))
        ELSE result

\* str(v.id if hasattr(v, "id") else v)
EndId(v) == IF HasAttr(v, "id") THEN Str(v.a["id"]) ELSE Str(v)

_edge_to_dict(edge) ==
    LET result == ("source" :> S(EndId(edge.a["outV"])))
                  @@ ("target" :> S(EndId(edge.a["inV"])))
                  @@ ("label" :> S(Str(edge.a["label"])))
    IN  IF HasAttr(edge, "properties") /\ IsDict(PropsOf(edge))
        THEN Update(result, AsMap(PropsOf(edge)))
        ELSE result

\* [k -> _flatten_value(item[k])] over the keys of item outside `skip`
FlatProps(item, skip) ==
    [k \in {item.kv[i].k : i \in 1..Len(item.kv)} \ skip |-> _flatten_value(Get(item, k))]

\* item.get(key, {}).get("id", item.get(key, "")), defined when item[key] is a dict
DictEndId(item, key) == Str(GetOr(Get(item, key), "id", Get(item, key)))

\* _process_dict: the edge built from a mapping with IN and OUT
DictEdge(item) ==
    Update(("source" :> S(DictEndId(item, "OUT")))
           @@ ("target" :> S(DictEndId(item, "IN")))
           @@ ("label" :> S(Str(GetOr(item, "label", S(""))))),
           FlatProps(item, {"id", "label", "IN", "OUT"}))

\* _process_dict: the node built from a mapping with id
DictVertex(item) == Update("id" :> S(Str(Get(item, "id"))), FlatProps(item, {"id"}))

\* if node_id not in nodes: nodes[node_id] = node
GrPutIfAbsent(ns, k, node) == IF InNodes(ns, k) THEN ns ELSE SetNode(ns, k, node)

\* items = list(result) if hasattr(result, "__iter__") else [result]
GremlinItems(result) ==
    IF HasAttr(result, "__iter__")
    THEN (IF IsSeq(result) THEN result.v
          ELSE IF IsDict(result) THEN [i \in 1..Len(result.kv) |-> S(result.kv[i].k)]
          ELSE result.a["__iter__"].v)
    ELSE <<result>>

Prop(addr, k, v) == O(addr, [key |-> S(k), value |-> v])

GrV1 == O(31, [id |-> I(1), label |-> S("person"),
               properties |-> L(<<Prop(32, "name", L(<<S("Alice")>>)),
                                  Prop(33, "tags", L(<<S("a"), S("b")>>))>>)])
\* the same vertex id again, as a bare vertex
GrV1b == O(34, [id |-> S("1"), label |-> S("dup")])
\* properties is a method; one property is keyed "id"
GrVcall == O(35, [id |-> I(2), label |-> S("person"),
                  properties |-> O(36, [__call__ |-> L(<<Prop(37, "id", S("1")),
                                                         Prop(38, "age", I(4))>>)])])
GrE == O(39, [id |-> I(9), label |-> S("knows"), outV |-> GrV1, inV |-> I(2),
              properties |-> D(40, <<KV("w", L(<<I(1)>>)), KV("since", I(3))>>)])
GrMapV == D(41, <<KV("id", I(1)), KV("label", S("person")), KV("name", L(<<S("Alice")>>)),
                  KV("langs", L(<<S("a"), S("b")>>)), KV("empty", L(<<>>))>>)
GrMapV2 == D(42, <<KV("id", I(3)), KV("name", L(<<S("Bob")>>)), KV("pair", T(<<S("x")>>)),
                   KV("age", I(7))>>)
GrMapE == D(43, <<KV("id", I(8)), KV("label", S("knows")),
                  KV("IN", D(44, <<KV("id", I(3))>>)), KV("OUT", D(45, <<KV("id", I(1))>>)),
                  KV("w", L(<<I(5)>>)), KV("ws", L(<<I(5), I(6)>>))>>)
\* element-map edge whose endpoints are raw identifiers
GrMapEraw == D(46, <<KV("IN", I(2)), KV("OUT", I(1)), KV("label", S("k"))>>)
GrMapOther == D(47, <<KV("name", L(<<S("x")>>))>>)
GrPathObj == O(48, [objects |-> L(<<GrV1b, GrE, GrMapV>>)])
GrNested == L(<<GrMapV2, T(<<GrV1, GrMapE, None>>)>>)

GrPool ==
    << None, S("scalar"), GrV1, GrV1b, GrVcall, GrE, GrMapV, GrMapV2, GrMapE, GrMapEraw,
       GrMapOther, GrPathObj, GrNested >>

GrInputs ==
    {None} \cup {L([i \in 1..Len(ix) |-> GrPool[ix[i]]]) : ix \in IndexSeqs(Len(GrPool))}

\* GremlinConverter.convert up to the loop over the items
GrInit ==
    /\ conv = "gremlin"
    /\ input \in GrInputs
    /\ cfg = NoCfg
    /\ recs = <<>>
    /\ todo = GremlinItems(input)
    /\ nodes = <<>>
    /\ edges = <<>>
    /\ labels = <<>>
    /\ pc = "run"
    /\ out = None
    /\ ExtIdle

GrRunning == conv = "gremlin" /\ pc = "run"
GrItem == Head(todo)
GrFrame == <<conv, input, cfg, recs, labels>>

\* GrNone without the early return: the attribute reads that follow fail
GrNoneRaises ==
    /\ GrRunning /\ todo # <<>> /\ GrItem = None
    /\ pc' = "raised"
    /\ UNCHANGED <<Ext, GrFrame, todo, nodes, edges, out>>

\* _process_item: item is None
GrNone ==
    /\ GrRunning /\ todo # <<>> /\ GrItem = None
    /\ todo' = Tail(todo)
    /\ UNCHANGED <<Ext, GrFrame, nodes, edges, pc, out>>

\* _process_item: a path, processed object by object
GrPath ==
    /\ GrRunning /\ todo # <<>> /\ GrItem # None
    /\ HasAttr(GrItem, "objects")
    /\ todo' = GrItem.a["objects"].v \o Tail(todo)
    /\ UNCHANGED <<Ext, GrFrame, nodes, edges, pc, out>>

\* _process_item: a vertex object
GrVertex ==
    /\ GrRunning /\ todo # <<>> /\ GrItem # None
    /\ ~HasAttr(GrItem, "objects") /\ _is_vertex(GrItem)
    /\ nodes' = GrPutIfAbsent(nodes, Str(GrItem.a["id"]), _vertex_to_dict(GrItem))
    /\ todo' = Tail(todo)
    /\ UNCHANGED <<Ext, GrFrame, edges, pc, out>>

\* _process_item: an edge object
GrEdge ==
    /\ GrRunning /\ todo # <<>> /\ GrItem # None
    /\ ~HasAttr(GrItem, "objects") /\ ~_is_vertex(GrItem) /\ _is_edge(GrItem)
    /\ edges' = Append(edges, _edge_to_dict(GrItem))
    /\ todo' = Tail(todo)
    /\ UNCHANGED <<Ext, GrFrame, nodes, pc, out>>

GrIsDictItem ==
    /\ GrRunning /\ todo # <<>> /\ GrItem # None
    /\ ~HasAttr(GrItem, "objects") /\ ~_is_vertex(GrItem) /\ ~_is_edge(GrItem)
    /\ IsDict(GrItem)

\* _process_dict: IN and OUT present, both mappings
GrDictEdge ==
    /\ GrIsDictItem /\ HasKey(GrItem, "IN") /\ HasKey(GrItem, "OUT")
    /\ IsDict(Get(GrItem, "OUT")) /\ IsDict(Get(GrItem, "IN"))
    /\ edges' = Append(edges, DictEdge(GrItem))
    /\ todo' = Tail(todo)
    /\ UNCHANGED <<Ext, GrFrame, nodes, pc, out>>

\* _process_dict: IN or OUT holds a value without .get: AttributeError leaves convert
GrDictEdgeRaise ==
    /\ GrIsDictItem /\ HasKey(GrItem, "IN") /\ HasKey(GrItem, "OUT")
    /\ ~(IsDict(Get(GrItem, "OUT")) /\ IsDict(Get(GrItem, "IN")))
    /\ pc' = "raised"
    /\ UNCHANGED <<Ext, GrFrame, todo, nodes, edges, out>>

\* _process_dict: a mapping with id
GrDictVertex ==
    /\ GrIsDictItem /\ ~(HasKey(GrItem, "IN") /\ HasKey(GrItem, "OUT"))
    /\ HasKey(GrItem, "id")
    /\ nodes' = GrPutIfAbsent(nodes, Str(Get(GrItem, "id")), DictVertex(GrItem))
    /\ todo' = Tail(todo)
    /\ UNCHANGED <<Ext, GrFrame, edges, pc, out>>

\* _process_dict: any other mapping
GrDictOther ==
    /\ GrIsDictItem /\ ~(HasKey(GrItem, "IN") /\ HasKey(GrItem, "OUT"))
    /\ ~HasKey(GrItem, "id")
    /\ todo' = Tail(todo)
    /\ UNCHANGED <<Ext, GrFrame, nodes, edges, pc, out>>

\* _process_item: a list or tuple, processed element by element
GrSeq ==
    /\ GrRunning /\ todo # <<>> /\ GrItem # None
    /\ ~HasAttr(GrItem, "objects") /\ ~_is_vertex(GrItem) /\ ~_is_edge(GrItem)
    /\ ~IsDict(GrItem) /\ IsSeq(GrItem)
    /\ todo' = GrItem.v \o Tail(todo)
    /\ UNCHANGED <<Ext, GrFrame, nodes, edges, pc, out>>

\* _process_item: anything else falls through
GrIgnore ==
    /\ GrRunning /\ todo # <<>> /\ GrItem # None
    /\ ~HasAttr(GrItem, "objects") /\ ~_is_vertex(GrItem) /\ ~_is_edge(GrItem)
    /\ ~IsDict(GrItem) /\ ~IsSeq(GrItem)
    /\ todo' = Tail(todo)
    /\ UNCHANGED <<Ext, GrFrame, nodes, edges, pc, out>>

\* return {"nodes": list(nodes.values()), "edges": edges}
GrReturn ==
    /\ GrRunning /\ todo = <<>>
    /\ out' = [nodes |-> NodeValues(nodes), edges |-> edges]
    /\ pc' = "done"
    /\ UNCHANGED <<Ext, GrFrame, todo, nodes, edges>>

GrNext ==
    \/ GrNone \/ GrPath \/ GrVertex \/ GrEdge \/ GrDictEdge \/ GrDictEdgeRaise
    \/ GrDictVertex \/ GrDictOther \/ GrSeq \/ GrIgnore \/ GrReturn

(* --------------------------- converters/sparql.py --------------------- *)
\* Strings the SPARQL converter takes apart are given by their pieces: the
\* delimiters "/" and "#", the scheme heads "http:", "https:", "urn:", and pieces
\* that hold no delimiter.  The Python string is the concatenation of the pieces.
RECURSIVE Join(_)
Join(toks) == IF toks = <<>> THEN "" ELSE Head(toks) \o Join(Tail(toks))

TermA == <<"http:", "/", "/", "e", "/", "a">>
TermB == <<"http:", "/", "/", "e", "/", "x", "#", "b">>
TermC == <<"urn:", "c">>
TermD == <<"https:", "/", "/", "e", "/", "d", "/">>
TermKnows == <<"http:", "/", "/", "e", "/", "knows">>
TermName == <<"http:", "/", "/", "e", "#", "v", "/", "name">>
TermIdPred == <<"http:", "/", "/", "e", "/", "id">>
TermRdfsLabel ==
    <<"http:", "/", "/", "www.w3.org", "/", "2000", "/", "01", "/", "rdf-schema", "#", "label">>
TermAlice == <<"Alice">>
TermBob == <<"Bob">>
TermX == <<"X">>
TermSlash == <<"n", "/", "a">>
TermPlain == <<"plain">>

Terms ==
    { <<>>, TermA, TermB, TermC, TermD, TermKnows, TermName, TermIdPred, TermRdfsLabel,
      TermAlice, TermBob, TermX, TermSlash, TermPlain }

\* the pieces of a string
Tokens(str) == CHOOSE tk \in Terms : Join(tk) = str

StartsWith(tk, prefix) == Len(tk) >= Len(prefix) /\ SubSeq(tk, 1, Len(prefix)) = prefix

UriPrefixes == { <<"http:", "/", "/">>, <<"https:", "/", "/">>, <<"urn:">> }

\* _is_uri without the "urn:" prefix
IsUriHttpOnly(value) ==
    \E prefix \in {<<"http:", "/", "/">>, <<"https:", "/", "/">>} :
        StartsWith(Tokens(value), prefix)

_is_uri(value) == \E prefix \in UriPrefixes : StartsWith(Tokens(value), prefix)

\* the pieces after the last occurrence of delimiter d
AfterLast(tk, d) ==
    LET last == CHOOSE i \in 1..Len(tk) : tk[i] = d /\ \A j \in (i + 1)..Len(tk) : tk[j] # d
    IN  SubSeq(tk, last + 1, Len(tk))

_extract_local_name(uri) ==
    IF "#" \in Range(Tokens(uri)) THEN Join(AfterLast(Tokens(uri), "#"))
    ELSE IF "/" \in Range(Tokens(uri)) THEN Join(AfterLast(Tokens(uri), "/"))
    ELSE uri

EmptyDict == D(0, <<>>)

\* _get_value: the string bound to var, "" when there is none
_get_value(binding, var) ==
    IF IsDict(binding)
    THEN LET val == GetOr(binding, var, EmptyDict)
         IN  IF IsDict(val) THEN Str(GetOr(val, "value", S("")))
             ELSE IF Truthy(val) THEN Str(val) ELSE ""
    ELSE IF HasAttr(binding, "__getitem__")
    THEN (IF binding.t = "obj" /\ HasKey(binding.a["__getitem__"], var)
             /\ Truthy(Get(binding.a["__getitem__"], var))
          THEN Str(Get(binding.a["__getitem__"], var))
          ELSE "")
    ELSE ""

\* _iter_bindings, as the list convert() makes of it
_iter_bindings(result) ==
    IF HasAttr(result, "bindings") THEN result.a["bindings"].v
    ELSE IF IsDict(result) /\ HasKey(result, "results")
    THEN GetOr(Get(result, "results"), "bindings", L(<<>>)).v
    ELSE IF HasAttr(result, "__iter__")
    THEN (IF IsSeq(result) THEN result.v
          ELSE IF IsDict(result) THEN [i \in 1..Len(result.kv) |-> S(result.kv[i].k)]
          ELSE result.a["__iter__"].v)
    ELSE <<>>

\* the node convert() creates for a URI
SpNewNode(uri, lbls) ==
    ("id" :> S(uri))
    @@ ("label" :> S(IF uri \in DOMAIN lbls THEN lbls[uri] ELSE _extract_local_name(uri)))
    @@ ("uri" :> S(uri))

SpEnsureNode(ns, uri, lbls) ==
    IF InNodes(ns, uri) THEN ns ELSE SetNode(ns, uri, SpNewNode(uri, lbls))

SpEdge(subj, pred, obj) ==
    ("source" :> S(subj)) @@ ("target" :> S(obj))
    @@ ("label" :> S(_extract_local_name(pred))) @@ ("predicate" :> S(pred))

\* SPARQLWrapper-style binding {"s": {"value": ..}, "p": .., "o": ..}; <<>> leaves
\* the variable unbound
RECURSIVE BindingKV(_, _)
BindingKV(addr, spo) ==
    IF spo = <<>> THEN <<>>
    ELSE (IF Head(spo)[2] = <<>> THEN <<>>
          ELSE <<KV(Head(spo)[1], D(addr + Len(spo), <<KV("value", S(Join(Head(spo)[2])))>>))>>)
         \o BindingKV(addr, Tail(spo))

Binding(addr, s, p, o) == D(addr, BindingKV(addr, << <<"s", s>>, <<"p", p>>, <<"o", o>> >>))

SpPool ==
    << Binding(200, TermA, TermKnows, TermB),
       Binding(204, TermA, TermKnows, TermC),
       Binding(208, TermC, TermKnows, TermD),
       Binding(212, TermA, TermName, TermAlice),
       Binding(216, TermA, TermName, TermBob),
       Binding(220, TermA, TermIdPred, TermX),
       Binding(224, TermB, TermIdPred, TermX),
       Binding(228, TermA, TermRdfsLabel, TermAlice),
       Binding(232, TermB, TermRdfsLabel, TermBob),
       Binding(236, <<>>, TermKnows, TermB),
       Binding(240, TermA, <<>>, TermB),
       Binding(244, TermB, TermKnows, <<>>),
       Binding(248, TermPlain, TermPlain, TermSlash),
       \* a row object indexed by variable, with the terms bound directly
       O(252, [__getitem__ |-> D(253, <<KV("s", S(Join(TermB))), KV("p", S(Join(TermKnows))),
                                        KV("o", S(Join(TermA)))>>)]),
       None >>

\* most bindings in one SPARQL input
MaxBindings == 2

BindingSeqs ==
    { [i \in 1..Len(ix) |-> SpPool[ix[i]]] :
        ix \in UNION {[1..len -> 1..Len(SpPool)] : len \in 0..MaxBindings} }

\* a result is a plain list of bindings or the SPARQLWrapper JSON document
SpInputs ==
    {None}
    \cup {L(bs) : bs \in BindingSeqs}
    \cup {D(260, <<KV("head", D(261, <<>>)),
                   KV("results", D(262, <<KV("bindings", L(bs))>>))>>) : bs \in BindingSeqs}

\* SPARQLConverter.__init__
SpConfig(nlp) ==
    [subject_var |-> "s", predicate_var |-> "p", object_var |-> "o",
     node_label_predicate |-> nlp]

SpConfigs == {SpConfig(S(Join(TermRdfsLabel))), SpConfig(None)}

\* pred == self.node_label_predicate
IsLabelPred(pred) ==
    cfg.node_label_predicate.t = "str" /\ pred = cfg.node_label_predicate.s

\* SPARQLConverter.convert up to the first pass
SpInit ==
    /\ conv = "sparql"
    /\ input \in SpInputs
    /\ cfg \in SpConfigs
    /\ recs = _iter_bindings(input)
    /\ todo = IF Truthy(cfg.node_label_predicate) THEN _iter_bindings(input) ELSE <<>>
    /\ nodes = <<>>
    /\ edges = <<>>
    /\ labels = <<>>
    /\ pc = "labels"
    /\ out = None
    /\ ExtIdle

SpSubj(b) == _get_value(b, cfg.subject_var)
SpPred(b) == _get_value(b, cfg.predicate_var)
SpObj(b) == _get_value(b, cfg.object_var)

SpFrame == <<conv, input, cfg>>

\* first pass, one binding: a label triple with subject and object is recorded
SpLabelRecord ==
    /\ conv = "sparql" /\ pc = "labels" /\ todo # <<>>
    /\ IsLabelPred(SpPred(Head(todo)))
    /\ SpSubj(Head(todo)) # "" /\ SpObj(Head(todo)) # ""
    /\ labels' = Update(labels, SpSubj(Head(todo)) :> SpObj(Head(todo)))
    /\ todo' = Tail(todo)
    /\ UNCHANGED <<Ext, SpFrame, recs, nodes, edges, pc, out>>

\* first pass, one binding: anything else
SpLabelSkip ==
    /\ conv = "sparql" /\ pc = "labels" /\ todo # <<>>
    /\ ~(/\ IsLabelPred(SpPred(Head(todo)))
         /\ SpSubj(Head(todo)) # "" /\ SpObj(Head(todo)) # "")
    /\ todo' = Tail(todo)
    /\ UNCHANGED <<Ext, SpFrame, recs, nodes, edges, labels, pc, out>>

\* the first pass is over (or was not run): start the second pass
SpLabelsDone ==
    /\ conv = "sparql" /\ pc = "labels" /\ todo = <<>>
    /\ pc' = "triples"
    /\ UNCHANGED <<Ext, SpFrame, recs, todo, nodes, edges, labels, out>>

SpTriple == conv = "sparql" /\ pc = "triples" /\ recs # <<>>

\* a second pass that takes the subject of a binding without predicate as a node
SpMissingPredicateNode ==
    /\ SpTriple
    /\ SpSubj(Head(recs)) = "" \/ SpPred(Head(recs)) = ""
    /\ nodes' = IF SpSubj(Head(recs)) = "" THEN nodes
                ELSE SpEnsureNode(nodes, SpSubj(Head(recs)), labels)
    /\ recs' = Tail(recs)
    /\ UNCHANGED <<Ext, SpFrame, todo, edges, labels, pc, out>>

\* second pass: subject or predicate missing
SpSkipMissing ==
    /\ SpTriple
    /\ SpSubj(Head(recs)) = "" \/ SpPred(Head(recs)) = ""
    /\ recs' = Tail(recs)
    /\ UNCHANGED <<Ext, SpFrame, todo, nodes, edges, labels, pc, out>>

\* second pass: a label triple
SpSkipLabel ==
    /\ SpTriple
    /\ SpSubj(Head(recs)) # "" /\ SpPred(Head(recs)) # ""
    /\ IsLabelPred(SpPred(Head(recs)))
    /\ recs' = Tail(recs)
    /\ UNCHANGED <<Ext, SpFrame, todo, nodes, edges, labels, pc, out>>

SpUsable ==
    /\ SpTriple
    /\ SpSubj(Head(recs)) # "" /\ SpPred(Head(recs)) # ""
    /\ ~IsLabelPred(SpPred(Head(recs)))

\* second pass: the object is a URI
SpUriObject ==
    /\ SpUsable
    /\ SpObj(Head(recs)) # "" /\ _is_uri(SpObj(Head(recs)))
    /\ nodes' = SpEnsureNode(SpEnsureNode(nodes, SpSubj(Head(recs)), labels),
                             SpObj(Head(recs)), labels)
    /\ edges' = Append(edges, SpEdge(SpSubj(Head(recs)), SpPred(Head(recs)), SpObj(Head(recs))))
    /\ recs' = Tail(recs)
    /\ UNCHANGED <<Ext, SpFrame, todo, labels, pc, out>>

\* second pass: the object is a literal
SpLiteralObject ==
    /\ SpUsable
    /\ SpObj(Head(recs)) # "" /\ ~_is_uri(SpObj(Head(recs)))
    /\ LET withSubj == SpEnsureNode(nodes, SpSubj(Head(recs)), labels)
       IN  nodes' = SetNode(withSubj, SpSubj(Head(recs)),
                            Update(NodeAt(withSubj, SpSubj(Head(recs))),
                                   _extract_local_name(SpPred(Head(recs)))
                                       :> S(SpObj(Head(recs)))))
    /\ recs' = Tail(recs)
    /\ UNCHANGED <<Ext, SpFrame, todo, edges, labels, pc, out>>

\* second pass: no object bound
SpNoObject ==
    /\ SpUsable
    /\ SpObj(Head(recs)) = ""
    /\ nodes' = SpEnsureNode(nodes, SpSubj(Head(recs)), labels)
    /\ recs' = Tail(recs)
    /\ UNCHANGED <<Ext, SpFrame, todo, edges, labels, pc, out>>

\* return {"nodes": list(nodes.values()), "edges": edges}
SpReturn ==
    /\ conv = "sparql" /\ pc = "triples" /\ recs = <<>>
    /\ out' = [nodes |-> NodeValues(nodes), edges |-> edges]
    /\ pc' = "done"
    /\ UNCHANGED <<Ext, SpFrame, recs, todo, nodes, edges, labels>>

SpNext ==
    \/ SpLabelRecord \/ SpLabelSkip \/ SpLabelsDone \/ SpSkipMissing \/ SpSkipLabel
    \/ SpUriObject \/ SpLiteralObject \/ SpNoObject \/ SpReturn

(* --------------------------- converters/graphql.py -------------------- *)
\* Paths are strings of pieces separated by the delimiter "."
PathItems == <<"items">>
PathDataItems == <<"data", ".", "items">>
PathFirstKids == <<"items", ".", "0", ".", "children">>
PathBeyond == <<"items", ".", "7", ".", "children">>
PathLinks == <<"links">>
PathCount == <<"count">>
PathDataLinks == <<"data", ".", "links">>
PathTerms ==
    {PathItems, PathDataItems, PathFirstKids, PathBeyond, PathLinks, PathCount, PathDataLinks}

\* path.split(".")
RECURSIVE SplitDots(_, _)
SplitDots(tk, cur) ==
    IF tk = <<>> THEN <<cur>>
    ELSE IF Head(tk) = "." THEN <<cur>> \o SplitDots(Tail(tk), "")
    ELSE SplitDots(Tail(tk), cur \o Head(tk))

PathSegments(path) == SplitDots(CHOOSE tk \in PathTerms : Join(tk) = path, "")

\* key.isdigit() and int(key), for the index segments that occur
DigitVal == ("0" :> 0) @@ ("1" :> 1) @@ ("7" :> 7)
IsDigit(key) == key \in DOMAIN DigitVal

\* WalkPath where a segment that does not apply to a list is passed over
RECURSIVE WalkPathSkip(_, _)
WalkPathSkip(data, segs) ==
    IF segs = <<>> THEN data
    ELSE IF IsDict(data) THEN WalkPathSkip(GetOr(data, Head(segs), None), Tail(segs))
    ELSE IF data.t = "list" /\ IsDigit(Head(segs))
    THEN WalkPathSkip(IF DigitVal[Head(segs)] < Len(data.v)
                      THEN data.v[DigitVal[Head(segs)] + 1] ELSE None,
                      Tail(segs))
    ELSE IF data.t = "list" THEN WalkPathSkip(data, Tail(segs))
    ELSE None

RECURSIVE WalkPath(_, _)
WalkPath(data, segs) ==
    IF segs = <<>> THEN data
    ELSE IF IsDict(data) THEN WalkPath(GetOr(data, Head(segs), None), Tail(segs))
    ELSE IF data.t = "list" /\ IsDigit(Head(segs))
    THEN WalkPath(IF DigitVal[Head(segs)] < Len(data.v)
                  THEN data.v[DigitVal[Head(segs)] + 1] ELSE None,
                  Tail(segs))
    ELSE None

_get_path(data, path) == WalkPath(data, PathSegments(path))

\* non-nested entries of item, the id field left out
ScalarProps(item, id_field) ==
    [k \in {item.kv[i].k : i \in 1..Len(item.kv)}
             \ ({id_field} \cup {item.kv[i].k : i \in {j \in 1..Len(item.kv) :
                                                     item.kv[j].v.t \in {"dict", "list"}}})
       |-> Get(item, k)]

_item_to_node(item) ==
    LET node_id == Str(GetOr(item, cfg.id_field, I(item.addr)))
        label == GetOr(item, cfg.label_field, S(""))
    IN  Update(("id" :> S(node_id))
               @@ ("label" :> S(IF Truthy(label) THEN Str(label) ELSE node_id)),
               ScalarProps(item, cfg.id_field))

\* item.get(field, item.get(alt, "")), a nested mapping replaced by its id field
EdgeEnd(item, field, alt) ==
    LET end == GetOr(item, field, GetOr(item, alt, S("")))
    IN  Str(IF IsDict(end) THEN GetOr(end, cfg.id_field, S("")) ELSE end)

_item_to_edge(item) ==
    ("source" :> S(EdgeEnd(item, cfg.source_field, "from")))
    @@ ("target" :> S(EdgeEnd(item, cfg.target_field, "to")))
    @@ ("label" :> S(Str(GetOr(item, "label",
                               GetOr(item, "type", GetOr(item, "__typename", S("")))))))

\* data = result.get("data", result) if isinstance(result, dict) else result
GqData(result) == IF IsDict(result) THEN GetOr(result, "data", result) ELSE result

\* `x or []`, as the sequence the for loop runs over (a dict yields its keys,
\* which are no mappings); only called when the value can be iterated
OrEmpty(x) == IF Truthy(x) /\ x.t = "list" THEN x.v ELSE <<>>
\* a truthy value the for loop cannot iterate
NotIterable(x) == Truthy(x) /\ x.t \in {"int", "obj"}

\* for item in node_list: if it is a dict: nodes[node["id"]] = node
RECURSIVE PathNodes(_, _)
PathNodes(ns, items) ==
    IF items = <<>> THEN ns
    ELSE PathNodes(IF IsDict(Head(items))
                   THEN SetNode(ns, _item_to_node(Head(items))["id"], _item_to_node(Head(items)))
                   ELSE ns,
                   Tail(items))

\* for item in edge_list: if it is a dict with both ends: edges.append(edge)
RECURSIVE PathEdges(_, _)
PathEdges(es, items) ==
    IF items = <<>> THEN es
    ELSE PathEdges(IF /\ IsDict(Head(items))
                      /\ _item_to_edge(Head(items))["source"].s # ""
                      /\ _item_to_edge(Head(items))["target"].s # ""
                   THEN Append(es, _item_to_edge(Head(items)))
                   ELSE es,
                   Tail(items))

IsGqNode(v) == IsDict(v) /\ HasKey(v, cfg.id_field)

\* _auto_extract, a node's nested references: the (field, mapping) pairs in the
\* order the loop over data.items() meets them
RECURSIVE RefsIn(_)
RefsIn(kvs) ==
    IF kvs = <<>> THEN <<>>
    ELSE (IF IsGqNode(Head(kvs).v) THEN <<KV(Head(kvs).k, Head(kvs).v)>>
          ELSE IF Head(kvs).v.t = "list"
          THEN LET hits == SelectSeq(Head(kvs).v.v, IsGqNode)
               IN  [i \in 1..Len(hits) |-> KV(Head(kvs).k, hits[i])]
          ELSE <<>>)
         \o RefsIn(Tail(kvs))

RECURSIVE RefNodes(_, _)
RefNodes(ns, refs) ==
    IF refs = <<>> THEN ns
    ELSE RefNodes(SetNode(ns, _item_to_node(Head(refs).v)["id"], _item_to_node(Head(refs).v)),
                  Tail(refs))

RefEdge(node, ref) ==
    ("source" :> node["id"]) @@ ("target" :> _item_to_node(ref.v)["id"])
    @@ ("label" :> S(ref.k))

RECURSIVE RefEdges(_, _, _)
RefEdges(es, node, refs) ==
    IF refs = <<>> THEN es
    ELSE RefEdges(Append(es, RefEdge(node, Head(refs))), node, Tail(refs))

ContainsEdge(parent_id, node) ==
    ("source" :> parent_id) @@ ("target" :> node["id"]) @@ ("label" :> S("contains"))

\* JSON mappings a response can hold
GqA == D(301, <<KV("id", S("1")), KV("name", S("A"))>>)
GqA2 == D(302, <<KV("id", S("1")), KV("name", S("B")), KV("age", I(3))>>)
GqB == D(303, <<KV("id", I(2)), KV("name", S("Two"))>>)
GqParent == D(304, <<KV("id", S("1")), KV("children", L(<<D(305, <<KV("id", S("2"))>>)>>))>>)
GqFamily == D(306, <<KV("id", S("3")), KV("name", S("P")),
                     KV("children", L(<<GqA, GqB, S("skip"), GqA2, GqB>>)),
                     KV("friend", GqB), KV("tags", L(<<S("x")>>)),
                     KV("meta", D(307, <<KV("k", I(1))>>))>>)
GqDeep == D(308, <<KV("id", S("4")),
                   KV("children", L(<<D(309, <<KV("id", S("5")),
                                               KV("kids", L(<<D(310, <<KV("id", S("6"))>>)>>))>>)>>))>>)
GqGroup == D(311, <<KV("title", S("g")), KV("members", L(<<GqA, GqParent>>))>>)
GqUid == D(312, <<KV("uid", S("1")), KV("id", I(9)), KV("name", S("U")),
                  KV("children", L(<<D(313, <<KV("uid", S("2")), KV("id", I(9))>>)>>))>>)
GqNoId == D(314, <<KV("name", S("anon"))>>)

GqPool == <<GqA, GqA2, GqB, GqParent, GqFamily, GqDeep, GqGroup, GqUid, GqNoId, S("text")>>

GqLinks ==
    L(<< D(320, <<KV("source", S("1")), KV("target", I(2)), KV("label", S("L"))>>),
         D(321, <<KV("from", D(322, <<KV("id", I(1))>>)), KV("to", D(323, <<KV("id", I(2))>>)),
                  KV("type", S("T"))>>),
         D(324, <<KV("source", S("1"))>>),
         S("text") >>)

\* most mappings in the list of one GraphQL response
MaxItems == 2

GqLists ==
    { L([i \in 1..Len(ix) |-> GqPool[ix[i]]]) :
        ix \in UNION {[1..len -> 1..Len(GqPool)] : len \in 0..MaxItems} }

\* the responses convert() is given: a bare mapping, a bare list, the list under
\* the "data" envelope, and a document with items, links and a count
GqInputs ==
    {None}
    \cup {GqPool[i] : i \in 1..Len(GqPool)}
    \cup GqLists
    \cup {D(330, <<KV("data", l)>>) : l \in GqLists}
    \cup {D(331, <<KV("data", D(332, <<KV("items", l), KV("links", GqLinks),
                                       KV("count", I(Len(l.v)))>>))>>) : l \in GqLists}

\* GraphQLConverter.__init__
GqConfig(id_field, nodes_path, edges_path) ==
    [id_field |-> id_field, label_field |-> "name", nodes_path |-> nodes_path,
     edges_path |-> edges_path, source_field |-> "source", target_field |-> "target"]

GqConfigs ==
    { GqConfig("id", None, None), GqConfig("uid", None, None),
      GqConfig("id", S(Join(PathItems)), None),
      GqConfig("id", S(Join(PathDataItems)), None),
      GqConfig("id", S(Join(PathFirstKids)), S(Join(PathLinks))),
      GqConfig("id", S(Join(PathBeyond)), None),
      GqConfig("id", S(Join(PathCount)), None),
      GqConfig("id", None, S(Join(PathLinks))),
      GqConfig("id", None, S(Join(PathCount))),
      GqConfig("id", None, S(Join(PathDataLinks))) }

\* GraphQLConverter.convert up to the explicit nodes path
GqInit ==
    /\ conv = "graphql"
    /\ input \in GqInputs
    /\ cfg \in GqConfigs
    /\ recs = <<>>
    /\ todo = <<>>
    /\ nodes = <<>>
    /\ edges = <<>>
    /\ labels = <<>>
    /\ pc = "nodes_path"
    /\ out = None
    /\ ExtIdle

GqFrame == <<conv, input, cfg, recs, labels>>

GqNodeList == _get_path(GqData(input), cfg.nodes_path.s)
GqEdgeList == _get_path(GqData(input), cfg.edges_path.s)

\* a nodes path that is used up by the call that follows it
GqNodesPathConsumed ==
    /\ conv = "graphql" /\ pc = "nodes_path"
    /\ Truthy(cfg.nodes_path) /\ ~NotIterable(GqNodeList)
    /\ nodes' = PathNodes(nodes, OrEmpty(GqNodeList))
    /\ pc' = "edges_path"
    /\ cfg' = [cfg EXCEPT !.nodes_path = None]
    /\ UNCHANGED <<Ext, conv, input, recs, labels, todo, edges, out>>

\* if self.nodes_path: every mapping of the list at the path becomes a node
GqNodesPath ==
    /\ conv = "graphql" /\ pc = "nodes_path"
    /\ Truthy(cfg.nodes_path) /\ ~NotIterable(GqNodeList)
    /\ nodes' = PathNodes(nodes, OrEmpty(GqNodeList))
    /\ pc' = "edges_path"
    /\ UNCHANGED <<Ext, GqFrame, todo, edges, out>>

\* the value at the nodes path is truthy and cannot be iterated: TypeError
GqNodesPathRaise ==
    /\ conv = "graphql" /\ pc = "nodes_path"
    /\ Truthy(cfg.nodes_path) /\ NotIterable(GqNodeList)
    /\ pc' = "raised"
    /\ UNCHANGED <<Ext, GqFrame, todo, nodes, edges, out>>

GqNoNodesPath ==
    /\ conv = "graphql" /\ pc = "nodes_path"
    /\ ~Truthy(cfg.nodes_path)
    /\ pc' = "edges_path"
    /\ UNCHANGED <<Ext, GqFrame, todo, nodes, edges, out>>

\* the work of _auto_extract(data, nodes, edges, None), run when no path is set
GqAutoWork ==
    IF ~Truthy(cfg.nodes_path) /\ ~Truthy(cfg.edges_path)
    THEN <<[data |-> GqData(input), parent_id |-> None]>>
    ELSE <<>>

\* if self.edges_path: every mapping of the list at the path with both ends
GqEdgesPath ==
    /\ conv = "graphql" /\ pc = "edges_path"
    /\ Truthy(cfg.edges_path) /\ ~NotIterable(GqEdgeList)
    /\ edges' = PathEdges(edges, OrEmpty(GqEdgeList))
    /\ todo' = GqAutoWork
    /\ pc' = "auto"
    /\ UNCHANGED <<Ext, GqFrame, nodes, out>>

GqEdgesPathRaise ==
    /\ conv = "graphql" /\ pc = "edges_path"
    /\ Truthy(cfg.edges_path) /\ NotIterable(GqEdgeList)
    /\ pc' = "raised"
    /\ UNCHANGED <<Ext, GqFrame, todo, nodes, edges, out>>

GqNoEdgesPath ==
    /\ conv = "graphql" /\ pc = "edges_path"
    /\ ~Truthy(cfg.edges_path)
    /\ todo' = GqAutoWork
    /\ pc' = "auto"
    /\ UNCHANGED <<Ext, GqFrame, nodes, edges, out>>

GqAuto == conv = "graphql" /\ pc = "auto" /\ todo # <<>>

\* _auto_extract on a mapping with the id field: the node, the edge from the
\* parent, and one node and one edge per nested reference
GqAutoNode ==
    /\ GqAuto /\ IsGqNode(Head(todo).data)
    /\ LET data == Head(todo).data
           parent_id == Head(todo).parent_id
           node == _item_to_node(data)
       IN  /\ nodes' = RefNodes(SetNode(nodes, node["id"], node), RefsIn(data.kv))
           /\ edges' = RefEdges(IF Truthy(parent_id) /\ parent_id # node["id"]
                                THEN Append(edges, ContainsEdge(parent_id, node))
                                ELSE edges,
                                node, RefsIn(data.kv))
    /\ todo' = Tail(todo)
    /\ UNCHANGED <<Ext, GqFrame, pc, out>>

\* _auto_extract on a mapping without the id field: recurse into its values
GqAutoDict ==
    /\ GqAuto /\ IsDict(Head(todo).data) /\ ~IsGqNode(Head(todo).data)
    /\ todo' = [i \in 1..Len(Head(todo).data.kv) |->
                  [data |-> Head(todo).data.kv[i].v, parent_id |-> Head(todo).parent_id]]
               \o Tail(todo)
    /\ UNCHANGED <<Ext, GqFrame, nodes, edges, pc, out>>

\* _auto_extract on a list: recurse into its items
GqAutoList ==
    /\ GqAuto /\ Head(todo).data.t = "list"
    /\ todo' = [i \in 1..Len(Head(todo).data.v) |->
                  [data |-> Head(todo).data.v[i], parent_id |-> Head(todo).parent_id]]
               \o Tail(todo)
    /\ UNCHANGED <<Ext, GqFrame, nodes, edges, pc, out>>

\* _auto_extract on anything else
GqAutoSkip ==
    /\ GqAuto /\ ~IsDict(Head(todo).data) /\ Head(todo).data.t # "list"
    /\ todo' = Tail(todo)
    /\ UNCHANGED <<Ext, GqFrame, nodes, edges, pc, out>>

\* return {"nodes": list(nodes.values()), "edges": edges}
GqReturn ==
    /\ conv = "graphql" /\ pc = "auto" /\ todo = <<>>
    /\ out' = [nodes |-> NodeValues(nodes), edges |-> edges]
    /\ pc' = "done"
    /\ UNCHANGED <<Ext, GqFrame, todo, nodes, edges>>

GqNext ==
    \/ GqNodesPath \/ GqNodesPathRaise \/ GqNoNodesPath
    \/ GqEdgesPath \/ GqEdgesPathRaise \/ GqNoEdgesPath
    \/ GqAutoNode \/ GqAutoDict \/ GqAutoList \/ GqAutoSkip \/ GqReturn

\* the converters; GQLConverter is CypherConverter
Converters == {"cypher", "gremlin", "sparql", "graphql"}

Init == CyInit \/ GrInit \/ SpInit \/ GqInit

Next == CyNext \/ GrNext \/ SpNext \/ GqNext

Spec == Init /\ [][Next]_vars

(***************************************************************************)
(* backends/*.py: fetch_schema                                             *)
(*                                                                         *)
(* The database is a scenario: the labels and relationship types it holds, *)
(* and which of the introspection calls made on it (counted in ncall)      *)
(* raises.  Labels and types are numbered.                                 *)
(***************************************************************************)
\* most labels and most relationship types in one database
MaxTypes == 2
\* most introspection calls of one fetch_schema: two listings, one query per type
MaxCalls == 2 * MaxTypes + 2

Backends == {"neo4j", "arango", "ladybug", "grafeo", "cosmosdb"}

DbInputs ==
    {[labels |-> [i \in 1..k |-> i], rel_types |-> [i \in 1..m |-> i],
      failAt |-> f, has_schema |-> h] :
        k \in 0..MaxTypes, m \in 0..MaxTypes, f \in 0..MaxCalls, h \in BOOLEAN}

\* node_types = []; edge_types = []
SchemaInit ==
    /\ backend \in Backends
    /\ db \in {d \in DbInputs : d.has_schema \/ backend = "grafeo"}
    /\ ncall = 0
    /\ pending = <<>>
    /\ node_types = <<>>
    /\ edge_types = <<>>
    /\ spc = "start"
    /\ sret = None
    /\ ConvIdle /\ WidgetIdle /\ PairIdle /\ QueryIdle

\* the call about to be made is the one that raises
CallFails == db.failAt = ncall + 1
\* the property keys a Neo4j property query answers
DbProps == <<"name">>
\* the collections ArangoDB lists: a system one, the document ones, the edge ones
ArCollections ==
    <<[name |-> 0, system |-> TRUE, type |-> 2]>>
    \o [i \in 1..Len(db.labels) |-> [name |-> db.labels[i], system |-> FALSE, type |-> 2]]
    \o [i \in 1..Len(db.rel_types) |-> [name |-> db.rel_types[i], system |-> FALSE, type |-> 3]]

SchemaFrame == <<backend, db, sret, ConvVars, WidgetVars, PairVars, QueryVars>>

\* session.run("CALL db.labels()") and session.run("CALL db.relationshipTypes()"):
\* no handler, a failure leaves fetch_schema
NeoListing ==
    /\ backend = "neo4j"
    /\ spc = "start" \/ (spc = "label_loop" /\ pending = <<>>)
    /\ ncall' = ncall + 1
    /\ IF CallFails
       THEN spc' = "raised" /\ UNCHANGED pending
       ELSE IF spc = "start"
            THEN pending' = db.labels /\ spc' = "label_loop"
            ELSE pending' = db.rel_types /\ spc' = "rel_loop"
    /\ UNCHANGED <<SchemaFrame, node_types, edge_types>>

\* the property query of one label or relationship type, then the append
NeoProps ==
    /\ backend = "neo4j"
    /\ spc \in {"label_loop", "rel_loop"} /\ pending # <<>>
    /\ ncall' = ncall + 1
    /\ IF CallFails
       THEN spc' = "raised" /\ UNCHANGED <<pending, node_types, edge_types>>
       ELSE /\ pending' = Tail(pending)
            /\ UNCHANGED spc
            /\ IF spc = "label_loop"
               THEN /\ node_types' = Append(node_types, [label |-> Head(pending), properties |-> DbProps])
                    /\ UNCHANGED edge_types
               ELSE /\ edge_types' = Append(edge_types, [type |-> Head(pending), properties |-> DbProps])
                    /\ UNCHANGED node_types
    /\ UNCHANGED SchemaFrame

\* for coll in self.db.collections(): no handler
ArListing ==
    /\ backend = "arango"
    /\ spc = "start"
    /\ ncall' = ncall + 1
    /\ IF CallFails
       THEN spc' = "raised" /\ UNCHANGED pending
       ELSE pending' = ArCollections /\ spc' = "coll_loop"
    /\ UNCHANGED <<SchemaFrame, node_types, edge_types>>

\* one collection: system ones are skipped, the others are counted and sorted by type
ArCollection ==
    /\ backend = "arango"
    /\ spc = "coll_loop" /\ pending # <<>>
    /\ IF Head(pending).system
       THEN /\ pending' = Tail(pending)
            /\ UNCHANGED <<ncall, spc, node_types, edge_types>>
       ELSE /\ ncall' = ncall + 1
            /\ IF CallFails
               THEN spc' = "raised" /\ UNCHANGED <<pending, node_types, edge_types>>
               ELSE /\ pending' = Tail(pending)
                    /\ UNCHANGED spc
                    /\ IF Head(pending).type = 3
                       THEN /\ edge_types' = Append(edge_types, [name |-> Head(pending).name, count |-> 1])
                            /\ UNCHANGED node_types
                       ELSE /\ node_types' = Append(node_types, [name |-> Head(pending).name, count |-> 1])
                            /\ UNCHANGED edge_types
    /\ UNCHANGED SchemaFrame

\* the two listings of LadybugDB, each in a try block of its own: a failure
\* of one is passed over and the function goes on with what it has
LbListing ==
    /\ backend = "ladybug"
    /\ spc = "start" \/ (spc = "label_loop" /\ pending = <<>>)
    /\ ncall' = ncall + 1
    /\ IF spc = "start"
       THEN pending' = (IF CallFails THEN <<>> ELSE db.labels) /\ spc' = "label_loop"
       ELSE IF CallFails
            THEN spc' = "return" /\ UNCHANGED pending
            ELSE pending' = db.rel_types /\ spc' = "rel_loop"
    /\ UNCHANGED <<SchemaFrame, node_types, edge_types>>

\* node_types.append({"label": label, "properties": []}) and its edge twin
LbItem ==
    /\ backend = "ladybug"
    /\ spc \in {"label_loop", "rel_loop"} /\ pending # <<>>
    /\ pending' = Tail(pending)
    /\ IF spc = "label_loop"
       THEN /\ node_types' = Append(node_types, [label |-> Head(pending), properties |-> <<>>])
            /\ UNCHANGED edge_types
       ELSE /\ edge_types' = Append(edge_types, [type |-> Head(pending), properties |-> <<>>])
            /\ UNCHANGED node_types
    /\ UNCHANGED <<SchemaFrame, ncall, spc>>

\* the two submits of CosmosDB, both in one try block: a failure of either
\* goes to the return with what was collected
CoListing ==
    /\ backend = "cosmosdb"
    /\ spc = "start" \/ (spc = "label_loop" /\ pending = <<>>)
    /\ ncall' = ncall + 1
    /\ IF CallFails
       THEN spc' = "return" /\ UNCHANGED pending
       ELSE IF spc = "start"
            THEN pending' = db.labels /\ spc' = "label_loop"
            ELSE pending' = db.rel_types /\ spc' = "rel_loop"
    /\ UNCHANGED <<SchemaFrame, node_types, edge_types>>

CoItem ==
    /\ backend = "cosmosdb"
    /\ spc \in {"label_loop", "rel_loop"} /\ pending # <<>>
    /\ pending' = Tail(pending)
    /\ IF spc = "label_loop"
       THEN /\ node_types' = Append(node_types, [label |-> Head(pending), properties |-> <<>>])
            /\ UNCHANGED edge_types
       ELSE /\ edge_types' = Append(edge_types, [type |-> Head(pending), properties |-> <<>>])
            /\ UNCHANGED node_types
    /\ UNCHANGED <<SchemaFrame, ncall, spc>>

\* GrafeoBackend.fetch_schema: one schema() call inside try, [] and [] otherwise
GfSchema ==
    /\ backend = "grafeo"
    /\ spc = "start"
    /\ spc' = "returned"
    /\ IF ~db.has_schema
       THEN sret' = <<<<>>, <<>>>> /\ UNCHANGED <<ncall, node_types, edge_types>>
       ELSE /\ ncall' = ncall + 1
            /\ IF CallFails
               THEN sret' = <<<<>>, <<>>>> /\ UNCHANGED <<node_types, edge_types>>
               ELSE /\ node_types' = [i \in 1..Len(db.labels) |->
                                        [label |-> db.labels[i], properties |-> <<>>]]
                    /\ edge_types' = [i \in 1..Len(db.rel_types) |->
                                        [type |-> db.rel_types[i], properties |-> <<>>]]
                    /\ sret' = <<node_types', edge_types'>>
    /\ UNCHANGED <<backend, db, pending, ConvVars, WidgetVars, PairVars, QueryVars>>

\* return node_types, edge_types
SchemaReturn ==
    /\ backend \in Backends \ {"grafeo"}
    /\ spc = "return" \/ (spc \in {"rel_loop", "coll_loop"} /\ pending = <<>>)
    /\ spc' = "returned"
    /\ sret' = <<node_types, edge_types>>
    /\ UNCHANGED <<backend, db, ncall, pending, node_types, edge_types, ConvVars, WidgetVars, PairVars, QueryVars>>

SchemaNext ==
    \/ NeoListing \/ NeoProps
    \/ ArListing \/ ArCollection
    \/ LbListing \/ LbItem
    \/ CoListing \/ CoItem
    \/ GfSchema
    \/ SchemaReturn

SchemaSpec == SchemaInit /\ [][SchemaNext]_vars

(***************************************************************************)
(* widget.py: Graph.on_node_click, Graph.on_edge_click and the trait       *)
(* notifications of selected_node and selected_edge.                       *)
(*                                                                         *)
(* Callbacks are numbered; `calls` is the list of the calls made by the    *)
(* last assignment to one of the two traits, in the order they were made.  *)
(* The dicts the front end stores in the traits are functions from keys.   *)
(***************************************************************************)
\* most registrations of each kind, and the number of distinct callbacks
MaxCallbacks == 2

\* what the front end stores in selected_node / selected_edge
NodeSelections == {None, [id |-> "a", label |-> "A"], [label |-> "B"]}
EdgeSelections == {None, [source |-> "a", target |-> "b"], [source |-> "b", target |-> "a"]}

\* Graph.__init__: no callback, no observer, nothing selected
WidgetInit ==
    /\ _node_click_callbacks = <<>>
    /\ node_observers = 0
    /\ _edge_click_callbacks = <<>>
    /\ edge_observers = 0
    /\ selected_node = None
    /\ selected_edge = None
    /\ calls = <<>>
    /\ ConvIdle /\ SchemaIdle /\ PairIdle /\ QueryIdle

\* self._node_click_callbacks.append(callback); self.observe(observer, ...)
on_node_click ==
    /\ Len(_node_click_callbacks) < MaxCallbacks
    /\ \E callback \in 1..MaxCallbacks :
         _node_click_callbacks' = Append(_node_click_callbacks, callback)
    /\ node_observers' = node_observers + 1
    /\ UNCHANGED <<_edge_click_callbacks, edge_observers, selected_node,
                   selected_edge, calls, ConvVars, SchemaVars, PairVars, QueryVars>>

\* self._edge_click_callbacks.append(callback); self.observe(observer, ...)
on_edge_click ==
    /\ Len(_edge_click_callbacks) < MaxCallbacks
    /\ \E callback \in 1..MaxCallbacks :
         _edge_click_callbacks' = Append(_edge_click_callbacks, callback)
    /\ edge_observers' = edge_observers + 1
    /\ UNCHANGED <<_node_click_callbacks, node_observers, selected_node,
                   selected_edge, calls, ConvVars, SchemaVars, PairVars, QueryVars>>

\* the calls one node observer makes for a change to `new`
NodeObserver(new) ==
    IF new = None THEN <<>>
    ELSE [i \in 1..Len(_node_click_callbacks) |->
            [cb |-> _node_click_callbacks[i],
             args |-> << IF "id" \in DOMAIN new THEN new["id"] ELSE None,
                         [k \in DOMAIN new \ {"id"} |-> new[k]] >>]]

\* the calls one edge observer makes for a change to `new`
EdgeObserver(new) ==
    IF new = None THEN <<>>
    ELSE [i \in 1..Len(_edge_click_callbacks) |->
            [cb |-> _edge_click_callbacks[i], args |-> <<new>>]]

\* traitlets runs every observer registered for the trait, in registration order
Notify(n, one) ==
    [i \in 1..(n * Len(one)) |-> one[((i - 1) % Len(one)) + 1]]

\* the front end assigns selected_node; observers run only when the value changes
SetSelectedNode ==
    /\ \E new \in NodeSelections \ {selected_node} :
         /\ selected_node' = new
         /\ calls' = Notify(node_observers, NodeObserver(new))
    /\ UNCHANGED <<_node_click_callbacks, node_observers, _edge_click_callbacks,
                   edge_observers, selected_edge, ConvVars, SchemaVars, PairVars, QueryVars>>

\* the front end assigns selected_edge
SetSelectedEdge ==
    /\ \E new \in EdgeSelections \ {selected_edge} :
         /\ selected_edge' = new
         /\ calls' = Notify(edge_observers, EdgeObserver(new))
    /\ UNCHANGED <<_node_click_callbacks, node_observers, _edge_click_callbacks,
                   edge_observers, selected_node, ConvVars, SchemaVars, PairVars, QueryVars>>

WidgetNext == on_node_click \/ on_edge_click \/ SetSelectedNode \/ SetSelectedEdge

WidgetSpec == WidgetInit /\ [][WidgetNext]_vars


(***************************************************************************)
(* Several convert calls on one converter instance.                        *)
(*                                                                         *)
(* The converter (conv with its fields cfg) is shared by the calls; every  *)
(* call has its own argument and its own locals, as in the source, where   *)
(* the accumulators are locals of convert.  First the two calls are made   *)
(* one after the other and their results are kept in `solo`; then both are *)
(* started again and run interleaved: the variables of the convert machine *)
(* hold the call that is running, `other` holds the call that is waiting.  *)
(***************************************************************************)
\* the locals of a call that has just entered convert
CallStart(c, result, config) ==
    [input |-> result,
     recs |-> CASE c = "cypher" -> CypherRecords(result)
                [] c = "sparql" -> _iter_bindings(result)
                [] OTHER -> <<>>,
     todo |-> CASE c = "gremlin" -> GremlinItems(result)
                [] c = "sparql" -> (IF Truthy(config.node_label_predicate)
                                    THEN _iter_bindings(result) ELSE <<>>)
                [] OTHER -> <<>>,
     nodes |-> <<>>, edges |-> <<>>, labels |-> <<>>,
     pc |-> CASE c = "sparql" -> "labels"
              [] c = "graphql" -> "nodes_path"
              [] OTHER -> "run",
     out |-> None]

\* the locals of the call that is running
Running ==
    [input |-> input, recs |-> recs, todo |-> todo, nodes |-> nodes, edges |-> edges,
     labels |-> labels, pc |-> pc, out |-> out]

\* the call that is running has returned or raised
Finished(p) == p \in {"done", "raised"}

\* one value per call: the arguments the two calls are given
PairInputs(c) ==
    CASE c = "cypher" -> {L(<<CyRecord(100, <<CyPool[i]>>)>>) : i \in 1..Len(CyPool)}
      [] c = "gremlin" -> {L(<<GrPool[i]>>) : i \in 1..Len(GrPool)}
      [] c = "sparql" -> {L(<<SpPool[i]>>) : i \in 1..Len(SpPool)}
      [] c = "graphql" ->
           {D(331, <<KV("data", D(332, <<KV("items", L(<<GqPool[i]>>)), KV("links", GqLinks),
                                         KV("count", I(1))>>))>>) : i \in 1..Len(GqPool)}

PairConfigs(c) ==
    CASE c = "sparql" -> SpConfigs
      [] c = "graphql" -> GqConfigs
      [] OTHER -> {NoCfg}

\* the converter is constructed and the first call enters convert
PairInit ==
    /\ conv \in Converters
    /\ cfg \in PairConfigs(conv)
    /\ \E a \in PairInputs(conv), b \in PairInputs(conv) :
         /\ solo = [cfg |-> cfg, in |-> <<a, b>>, res |-> <<None, None>>]
         /\ input = a
         /\ recs = CallStart(conv, a, cfg).recs
         /\ todo = CallStart(conv, a, cfg).todo
         /\ pc = CallStart(conv, a, cfg).pc
    /\ nodes = <<>> /\ edges = <<>> /\ labels = <<>> /\ out = None
    /\ other = None
    /\ turn = 1
    /\ phase = "solo"
    /\ SchemaIdle /\ WidgetIdle /\ QueryIdle

\* the named call enters convert in place of the one that is running
Enter(st) ==
    /\ input' = st.input /\ recs' = st.recs /\ todo' = st.todo /\ nodes' = st.nodes
    /\ edges' = st.edges /\ labels' = st.labels /\ pc' = st.pc /\ out' = st.out

\* the first call is over: the second call is made on the same converter
PairRepeat ==
    /\ phase = "solo" /\ turn = 1 /\ Finished(pc)
    /\ solo' = [solo EXCEPT !.res[1] = [pc |-> pc, out |-> out]]
    /\ turn' = 2
    /\ Enter(CallStart(conv, solo.in[2], cfg))
    /\ UNCHANGED <<conv, cfg, other, phase, SchemaVars, WidgetVars, QueryVars>>

\* the second call is over: both calls are made again, this time together
PairConcurrent ==
    /\ phase = "solo" /\ turn = 2 /\ Finished(pc)
    /\ solo' = [solo EXCEPT !.res[2] = [pc |-> pc, out |-> out]]
    /\ phase' = "pair"
    /\ turn' = 1
    /\ Enter(CallStart(conv, solo.in[1], cfg))
    /\ other' = CallStart(conv, solo.in[2], cfg)
    /\ UNCHANGED <<conv, cfg, SchemaVars, WidgetVars, QueryVars>>

\* a switch between calls that keep their nodes in one place: the call that
\* resumes finds the nodes of the call that was running
PairSwitchSharedNodes ==
    /\ phase = "pair" /\ ~Finished(other.pc)
    /\ other' = Running
    /\ Enter([other EXCEPT !.nodes = nodes])
    /\ turn' = 3 - turn
    /\ UNCHANGED <<conv, cfg, solo, phase, SchemaVars, WidgetVars, QueryVars>>

\* the scheduler suspends the running call and resumes the waiting one
PairSwitch ==
    /\ phase = "pair" /\ ~Finished(other.pc)
    /\ other' = Running
    /\ Enter(other)
    /\ turn' = 3 - turn
    /\ UNCHANGED <<conv, cfg, solo, phase, SchemaVars, WidgetVars, QueryVars>>

PairNext ==
    \/ CyNext \/ GrNext \/ SpNext \/ GqNext
    \/ PairRepeat \/ PairConcurrent \/ PairSwitch

PairSpec == PairInit /\ [][PairNext]_vars

(***************************************************************************)
(* widget.py: construction of a Graph from data, and the execution of a    *)
(* query against a Python backend when the front end changes the           *)
(* _execute_query trigger.                                                 *)
(*                                                                         *)
(* Node and edge lists are sequences of dicts; the backend is a scenario:  *)
(* whether it is configured, and what its successive execute calls do.     *)
(***************************************************************************)
\* most backend executions one widget goes through
MaxQueries == 2

\* the lists a caller or a backend hands over
NodeLists == {<<>>, <<[id |-> "x"]>>, <<[id |-> "a", label |-> "A"], [id |-> "b", label |-> "B"]>>}
EdgeLists == {<<>>, <<[source |-> "x", target |-> "y"]>>,
              <<[source |-> "a", target |-> "b", label |-> "connects"]>>}

\* a lookup that passes on the first entry only
DictGetFirst(data, key) ==
    IF key \in DOMAIN data /\ data[key] # <<>> THEN <<data[key][1]>> ELSE <<>>

\* data.get(key, [])
DictGet(data, key) == IF key \in DOMAIN data THEN data[key] ELSE <<>>
\* an argument of Graph(): a list, or left out (None)
Given(list) == [given |-> TRUE, v |-> list]
Omitted == [given |-> FALSE, v |-> <<>>]
\* nodes or []
OrEmptyList(arg) == IF ~arg.given \/ arg.v = <<>> THEN <<>> ELSE arg.v

\* how the widget is built: Graph(nodes, edges) with either argument left out
\* (None), or Graph.from_dict(data) with either key left out
Ctors ==
    {[kind |-> "init", nodes |-> n, edges |-> e] :
        n \in {Given(l) : l \in NodeLists} \cup {Omitted},
        e \in {Given(l) : l \in EdgeLists} \cup {Omitted}}
    \cup {[kind |-> "from_dict", data |-> d] :
            d \in UNION {[ks -> NodeLists \cup EdgeLists] : ks \in SUBSET {"nodes", "edges"}}}

\* Graph.from_dict: cls(nodes=data.get("nodes", []), edges=data.get("edges", []))
from_dict(data) == [nodes |-> OrEmptyList(Given(DictGet(data, "nodes"))),
                    edges |-> OrEmptyList(Given(DictGet(data, "edges")))]

\* what one execute call does: raise with a message or return a pair
Outcomes ==
    {[raises |-> TRUE, msg |-> "boom", nodes |-> <<>>, edges |-> <<>>]}
    \cup {[raises |-> FALSE, msg |-> "", nodes |-> n, edges |-> e] :
            n \in NodeLists \ {<<[id |-> "x"]>>}, e \in {<<>>, <<[source |-> "a", target |-> "b", label |-> "connects"]>>}}

\* Neo4jBackend.driver without driver and without uri
NoDriver ==
    [raises |-> TRUE, msg |-> "Either driver or uri must be provided",
     nodes |-> <<>>, edges |-> <<>>]

\* the backends a widget is given: none, a Neo4jBackend with neither driver
\* nor uri, a backend whose calls answer as scripted
QueryBackends ==
    {None, [configured |-> FALSE, script |-> [i \in 1..MaxQueries |-> NoDriver]]}
    \cup {[configured |-> TRUE, script |-> s] : s \in [1..MaxQueries -> Outcomes]}

\* Graph.__init__ and Graph.from_dict
QueryInit ==
    /\ ctor \in Ctors
    /\ graph_nodes = IF ctor.kind = "init" THEN OrEmptyList(ctor.nodes)
                     ELSE from_dict(ctor.data).nodes
    /\ graph_edges = IF ctor.kind = "init" THEN OrEmptyList(ctor.edges)
                     ELSE from_dict(ctor.data).edges
    /\ _backend \in QueryBackends
    /\ _execute_query = 0
    /\ query_running = FALSE
    /\ query_error = ""
    /\ qpc = "idle"
    /\ executions = 0
    /\ ConvIdle /\ SchemaIdle /\ WidgetIdle /\ PairIdle

\* the front end changes the trigger: _on_execute_query, and with a backend
\* _execute_backend_query up to the call of execute
_on_execute_query ==
    /\ qpc = "idle"
    /\ \E new \in (0..MaxQueries) \ {_execute_query} :
         /\ _execute_query' = new
         /\ IF new = 0 \/ _backend = None
            THEN UNCHANGED <<query_running, query_error, qpc, executions>>
            ELSE /\ executions < MaxQueries
                 /\ query_running' = TRUE
                 /\ query_error' = ""
                 /\ qpc' = "execute"
                 /\ executions' = executions + 1
    /\ UNCHANGED <<ctor, graph_nodes, graph_edges, _backend,
                   ConvVars, SchemaVars, WidgetVars, PairVars>>

\* execute returns and only the nodes are taken over
ExecuteReturnsNodesOnly ==
    /\ qpc = "execute"
    /\ ~_backend.script[executions].raises
    /\ graph_nodes' = _backend.script[executions].nodes
    /\ query_running' = FALSE
    /\ qpc' = "idle"
    /\ UNCHANGED <<ctor, _backend, _execute_query, query_error, executions, graph_edges,
                   ConvVars, SchemaVars, WidgetVars, PairVars>>

\* execute returns: self.nodes = nodes; self.edges = edges; finally
ExecuteReturns ==
    /\ qpc = "execute"
    /\ ~_backend.script[executions].raises
    /\ graph_nodes' = _backend.script[executions].nodes
    /\ graph_edges' = _backend.script[executions].edges
    /\ query_running' = FALSE
    /\ qpc' = "idle"
    /\ UNCHANGED <<ctor, _backend, _execute_query, query_error, executions,
                   ConvVars, SchemaVars, WidgetVars, PairVars>>

\* execute raises and the handler forgets to leave the running state
ExecuteRaisesStaysRunning ==
    /\ qpc = "execute"
    /\ _backend.script[executions].raises
    /\ query_error' = _backend.script[executions].msg
    /\ qpc' = "idle"
    /\ UNCHANGED <<ctor, _backend, _execute_query, graph_nodes, graph_edges, query_running,
                   executions, ConvVars, SchemaVars, WidgetVars, PairVars>>

\* execute raises: except Exception as e: self.query_error = str(e); finally
ExecuteRaises ==
    /\ qpc = "execute"
    /\ _backend.script[executions].raises
    /\ query_error' = _backend.script[executions].msg
    /\ query_running' = FALSE
    /\ qpc' = "idle"
    /\ UNCHANGED <<ctor, _backend, _execute_query, graph_nodes, graph_edges, executions,
                   ConvVars, SchemaVars, WidgetVars, PairVars>>

QueryNext == _on_execute_query \/ ExecuteReturns \/ ExecuteRaises

QuerySpec == QueryInit /\ [][QueryNext]_vars

(* ====================================================================== *)
(* Properties                                                              *)
(* ====================================================================== *)
Done == pc = "done"

\* the first value stored under each key, in the order the keys first occur
RECURSIVE FirstPerKey(_, _)
FirstPerKey(occ, seen) ==
    IF occ = <<>> THEN <<>>
    ELSE IF Head(occ).k \in seen THEN FirstPerKey(Tail(occ), seen)
    ELSE <<Head(occ).v>> \o FirstPerKey(Tail(occ), seen \cup {Head(occ).k})

RECURSIVE Concat(_)
Concat(ss) == IF ss = <<>> THEN <<>> ELSE Head(ss) \o Concat(Tail(ss))

\* The values a Cypher result holds, in traversal order, each with the shape it
\* is taken for: the members of a path as they are, otherwise node before
\* relationship before sequence.
RECURSIVE CyWalk(_)
CyWalk(value) ==
    IF value = None THEN <<>>
    ELSE IF IsPath(value)
    THEN [i \in 1..Len(value.a["nodes"].v) |-> [kind |-> "node", v |-> value.a["nodes"].v[i]]]
         \o [i \in 1..Len(value.a["relationships"].v) |->
               [kind |-> "rel", v |-> value.a["relationships"].v[i]]]
    ELSE IF is_node(value) THEN <<[kind |-> "node", v |-> value]>>
    ELSE IF is_relationship(value) THEN <<[kind |-> "rel", v |-> value]>>
    ELSE IF IsSeq(value) THEN Concat([i \in 1..Len(value.v) |-> CyWalk(value.v[i])])
    ELSE <<>>

CyMetOf(result) ==
    LET rs == CypherRecords(result)
        vals == Concat([i \in 1..Len(rs) |-> ExtractValues(rs[i])])
    IN  Concat([i \in 1..Len(vals) |-> CyWalk(vals[i])])

CyMet == CyMetOf(input)

IsNodeOcc(o) == o.kind = "node"
IsRelOcc(o) == o.kind = "rel"

CyNodeOccOf(result) ==
    LET ns == SelectSeq(CyMetOf(result), IsNodeOcc)
    IN  [i \in 1..Len(ns) |-> KV(get_node_id(ns[i].v), node_to_dict(ns[i].v))]

CyNodeOcc == CyNodeOccOf(input)

CyRelsMetOf(result) ==
    LET rs == SelectSeq(CyMetOf(result), IsRelOcc) IN [i \in 1..Len(rs) |-> rs[i].v]

CyRelsMet == CyRelsMetOf(input)

\* The vertices a Gremlin result holds, in traversal order
RECURSIVE GrWalk(_)
GrWalk(item) ==
    IF item = None THEN <<>>
    ELSE IF HasAttr(item, "objects")
    THEN Concat([i \in 1..Len(item.a["objects"].v) |-> GrWalk(item.a["objects"].v[i])])
    ELSE IF _is_vertex(item) THEN <<KV(Str(item.a["id"]), _vertex_to_dict(item))>>
    ELSE IF _is_edge(item) THEN <<>>
    ELSE IF IsDict(item)
    THEN (IF HasKey(item, "IN") /\ HasKey(item, "OUT") THEN <<>>
          ELSE IF HasKey(item, "id") THEN <<KV(Str(Get(item, "id")), DictVertex(item))>>
          ELSE <<>>)
    ELSE IF IsSeq(item) THEN Concat([i \in 1..Len(item.v) |-> GrWalk(item.v[i])])
    ELSE <<>>

GrNodeOcc ==
    LET items == GremlinItems(input) IN Concat([i \in 1..Len(items) |-> GrWalk(items[i])])

\* The mappings a GraphQL response holds that are taken for nodes, in the order
\* the converter meets them
RECURSIVE GqWalk(_)
GqWalk(data) ==
    IF IsGqNode(data)
    THEN <<data>> \o [i \in 1..Len(RefsIn(data.kv)) |-> RefsIn(data.kv)[i].v]
    ELSE IF IsDict(data) THEN Concat([i \in 1..Len(data.kv) |-> GqWalk(data.kv[i].v)])
    ELSE IF data.t = "list" THEN Concat([i \in 1..Len(data.v) |-> GqWalk(data.v[i])])
    ELSE <<>>

GqMet ==
    IF Truthy(cfg.nodes_path) THEN SelectSeq(OrEmpty(GqNodeList), IsDict)
    ELSE IF Truthy(cfg.edges_path) THEN <<>>
    ELSE GqWalk(GqData(input))

GqNodeOcc ==
    [i \in 1..Len(GqMet) |-> KV(_item_to_node(GqMet[i])["id"], _item_to_node(GqMet[i]))]

(* C1: the nodes list one convert call returns holds no two entries with the
   same value of `id`, for every converter and every input. *)
C1_UniqueNodeIds ==
    Done => \A i, j \in 1..Len(out.nodes) :
                i # j => out.nodes[i]["id"] # out.nodes[j]["id"]

(* C2: when a node id occurs more than once in the input of the Cypher or the
   Gremlin converter, the output holds one node for it, at the place of its
   first occurrence and with exactly the fields of its first occurrence. *)
C2_FirstOccurrenceWins ==
    /\ (Done /\ conv = "cypher") => out.nodes = FirstPerKey(CyNodeOcc, {})
    /\ (Done /\ conv = "gremlin") => out.nodes = FirstPerKey(GrNodeOcc, {})

\* an id was met twice with different fields, inside a list or a path as well
C2_Witness ==
    /\ Done /\ conv = "cypher"
    /\ \E i, j \in 1..Len(CyNodeOcc) :
          i < j /\ CyNodeOcc[i].k = CyNodeOcc[j].k /\ CyNodeOcc[i].v # CyNodeOcc[j].v
    /\ \E r \in Range(CypherRecords(input)) :
          \E v \in Range(ExtractValues(r)) : IsPath(v) \/ IsSeq(v)

(* C3: when two mappings with the same id occur in the input of the GraphQL
   converter, the output holds one node with that id, with the fields of the
   first mapping met; the later one is dropped. *)
C3_GraphQLFirstWins ==
    (Done /\ conv = "graphql") => out.nodes = FirstPerKey(GqNodeOcc, {})

(* C4: the Cypher record {"n": {"id": 1, "labels": ["Person"], "properties":
   {"name": "Alice"}}} gives exactly the node {id: "1", label: "Person",
   labels: ["Person"], name: "Alice"} and no edge. *)
C4_PlainMappingNode ==
    (/\ Done /\ conv = "cypher"
     /\ input.t = "list" /\ Len(input.v) = 1
     /\ ExtractValues(input.v[1]) = <<CyDict1>>)
    => out = [nodes |-> << ("id" :> S("1")) @@ ("label" :> S("Person"))
                           @@ ("labels" :> L(<<S("Person")>>))
                           @@ ("name" :> S("Alice")) >>,
              edges |-> <<>>]

(* C5: every node of the output of any converter has an `id` key whose value
   is a string. *)
C5_NodeIdIsString ==
    Done => \A i \in 1..Len(out.nodes) :
                "id" \in DOMAIN out.nodes[i] /\ out.nodes[i]["id"].t = "str"

(* C6: every edge of the output of any converter has a `source` and a `target`
   key, both with string values. *)
C6_EdgeEndsAreStrings ==
    Done => \A i \in 1..Len(out.edges) :
                /\ {"source", "target"} \subseteq DOMAIN out.edges[i]
                /\ out.edges[i]["source"].t = "str"
                /\ out.edges[i]["target"].t = "str"

(* C7: the Cypher converter returns one edge per value taken for a
   relationship, met as a record value, inside nested lists or tuples, or in
   the relationships of a path; duplicates are kept and the edges are in the
   order the values are met. *)
C7_EdgePassthrough ==
    (Done /\ conv = "cypher") =>
        /\ Len(out.edges) = Len(CyRelsMet)
        /\ \A i \in 1..Len(CyRelsMet) : out.edges[i] = relationship_to_dict(CyRelsMet[i])

\* a result with a path and the same relationship met more than once
C7_Witness ==
    /\ Done /\ conv = "cypher"
    /\ Len(out.edges) >= 3
    /\ \E i, j \in 1..Len(out.edges) : i < j /\ out.edges[i] = out.edges[j]
    /\ \E r \in Range(CypherRecords(input)) : \E v \in Range(ExtractValues(r)) : IsPath(v)

\* a string that starts with http://, https:// or urn:, read off its pieces
C8IsUri(tk) ==
    /\ Len(tk) >= 1
    /\ \/ tk[1] = "urn:"
       \/ Len(tk) >= 3 /\ tk[1] \in {"http:", "https:"} /\ tk[2] = "/" /\ tk[3] = "/"

C8NodeKeys(ns) == {ns[i].k : i \in 1..Len(ns)}

\* a binding of the second pass that states a triple with an object
C8Triple(b) ==
    /\ SpSubj(b) # "" /\ SpPred(b) # "" /\ SpObj(b) # ""
    /\ ~IsLabelPred(SpPred(b))

C8UriTriple(b) == C8Triple(b) /\ C8IsUri(Tokens(SpObj(b)))

C8EdgeOf(b) ==
    [source |-> S(SpSubj(b)), target |-> S(SpObj(b)),
     label |-> S(_extract_local_name(SpPred(b))), predicate |-> S(SpPred(b))]

\* one binding of the second pass has just been handled
C8Step ==
    (conv = "sparql" /\ pc = "triples" /\ recs # <<>> /\ recs' = Tail(recs)
     /\ C8Triple(Head(recs)))
    => LET b == Head(recs)
           subj == SpSubj(b)
           obj == SpObj(b)
       IN  IF C8IsUri(Tokens(obj))
           THEN /\ C8NodeKeys(nodes') = C8NodeKeys(nodes) \cup {subj, obj}
                /\ edges' = Append(edges, C8EdgeOf(b))
           ELSE /\ C8NodeKeys(nodes') = C8NodeKeys(nodes) \cup {subj}
                /\ edges' = edges
                /\ _extract_local_name(SpPred(b)) \in DOMAIN NodeAt(nodes', subj)
                /\ NodeAt(nodes', subj)[_extract_local_name(SpPred(b))] = S(obj)

C8Output ==
    (Done /\ conv = "sparql") =>
        LET bs == _iter_bindings(input)
            uris == SelectSeq(bs, C8UriTriple)
        IN  /\ out.edges = [i \in 1..Len(uris) |-> C8EdgeOf(uris[i])]
            /\ \A i \in 1..Len(uris) :
                  {S(SpSubj(uris[i])), S(SpObj(uris[i]))}
                      \subseteq {out.nodes[j]["uri"] : j \in 1..Len(out.nodes)}
            /\ Len(out.nodes) =
                  Cardinality({SpSubj(bs[i]) : i \in {j \in 1..Len(bs) :
                                    /\ SpSubj(bs[j]) # "" /\ SpPred(bs[j]) # ""
                                    /\ ~IsLabelPred(SpPred(bs[j]))}}
                              \cup {SpObj(uris[i]) : i \in 1..Len(uris)})

(* C8: in the SPARQL converter, a triple with subject and predicate whose
   predicate is not the label predicate and whose object is a literal creates
   no node for the object and appends no edge, and the subject node gains the
   literal under the predicate's local name; a triple whose object is a URI
   (http://, https:// or urn:) makes subject and object nodes of the output
   and appends exactly one edge subject -> object, labelled with the
   predicate's local name and carrying the predicate URI as `predicate`. *)
C8_SparqlTriples == [][C8Step]_vars /\ []C8Output

\* the output of a result with a urn: object and a literal on the same subject
C8_Witness ==
    /\ Done /\ conv = "sparql"
    /\ \E i \in 1..Len(out.edges) : out.edges[i]["target"] = S(Join(TermC))
    /\ \E i \in 1..Len(out.nodes) :
          /\ "v/name" \in DOMAIN out.nodes[i]
          /\ out.nodes[i]["v/name"] = S("Alice")
    /\ Len(out.nodes) = 2

\* every mapping of a JSON tree
RECURSIVE GqTree(_)
GqTree(data) ==
    IF IsDict(data)
    THEN <<data>> \o Concat([i \in 1..Len(data.kv) |-> GqTree(data.kv[i].v)])
    ELSE IF data.t = "list" THEN Concat([i \in 1..Len(data.v) |-> GqTree(data.v[i])])
    ELSE <<>>

C9HasNode(id) == \E i \in 1..Len(out.nodes) : out.nodes[i]["id"] = id

C9IdOf(m) == S(Str(Get(m, cfg.id_field)))

(* C9: in GraphQL auto-detection mode, a mapping with the id field and a field
   f holding a list of mappings that each have the id field yields a node for
   the parent, a node for each child and an edge {source: parent id, target:
   child id, label: f} for each child; {"id": "1", "children": [{"id": "2"}]}
   gives exactly the nodes "1" and "2" and the single edge 1 -> 2 labelled
   "children". *)
C9_AutoDetectChildren ==
    (Done /\ conv = "graphql" /\ ~Truthy(cfg.nodes_path) /\ ~Truthy(cfg.edges_path)) =>
        /\ \A m \in Range(GqTree(GqData(input))) :
              IsGqNode(m) =>
                \A i \in 1..Len(m.kv) :
                    (/\ m.kv[i].v.t = "list" /\ Len(m.kv[i].v.v) >= 1
                     /\ \A c \in Range(m.kv[i].v.v) : IsGqNode(c))
                    => /\ C9HasNode(C9IdOf(m))
                       /\ \A c \in Range(m.kv[i].v.v) :
                             /\ C9HasNode(C9IdOf(c))
                             /\ \E e \in Range(out.edges) :
                                   e = [source |-> C9IdOf(m), target |-> C9IdOf(c),
                                        label |-> S(m.kv[i].k)]
        /\ (input = GqParent /\ cfg.id_field = "id") =>
              out = [nodes |-> <<[id |-> S("1"), label |-> S("1")],
                                 [id |-> S("2"), label |-> S("2")]>>,
                     edges |-> <<[source |-> S("1"), target |-> S("2"),
                                  label |-> S("children")]>>]

\* a list of length one gives its element, anything else is kept
C10Single(value) == IF value.t = "list" /\ Len(value.v) = 1 THEN value.v[1] ELSE value

\* the entry appended to a sequence by this step, if one was
C10Added(old, new) == Len(new) = Len(old) + 1

\* the properties an accessor yields, the last value of a key standing
C10ObjProps(x) ==
    LET ps == IterOf(PropsOf(x))
        ok == {i \in 1..Len(ps) : HasAttr(ps[i], "key") /\ HasAttr(ps[i], "value")}
    IN  {ps[i] : i \in {j \in ok : \A l \in ok : l > j => ps[l].a["key"] # ps[j].a["key"]}}

\* properties of value-map and element-map mappings
C10DictStep ==
    (conv = "gremlin" /\ pc = "run" /\ todo # <<>> /\ IsDict(Head(todo))) =>
        /\ C10Added(nodes, nodes') =>
              \A i \in 1..Len(Head(todo).kv) :
                  Head(todo).kv[i].k # "id" =>
                      nodes'[Len(nodes')].v[Head(todo).kv[i].k] = C10Single(Head(todo).kv[i].v)
        /\ C10Added(edges, edges') =>
              \A i \in 1..Len(Head(todo).kv) :
                  Head(todo).kv[i].k \notin {"id", "label", "IN", "OUT"} =>
                      edges'[Len(edges')][Head(todo).kv[i].k] = C10Single(Head(todo).kv[i].v)

\* what a property value read through an accessor becomes
C10Conv(flat, value) == IF flat THEN C10Single(value) ELSE value

\* properties read through the accessor of vertex and edge objects, flattened
\* or copied as they are
C10ObjStep(flat) ==
    (conv = "gremlin" /\ pc = "run" /\ todo # <<>> /\ Head(todo).t = "obj"
     /\ HasAttr(Head(todo), "properties")) =>
        /\ C10Added(nodes, nodes') =>
              \A p \in C10ObjProps(Head(todo)) :
                  nodes'[Len(nodes')].v[p.a["key"].s] = C10Conv(flat, p.a["value"])
        /\ (C10Added(edges, edges') /\ IsDict(PropsOf(Head(todo)))) =>
              \A i \in 1..Len(PropsOf(Head(todo)).kv) :
                  edges'[Len(edges')][PropsOf(Head(todo)).kv[i].k]
                      = C10Conv(flat, PropsOf(Head(todo)).kv[i].v)

(* C10 as stated: in the Gremlin converter every property value placed on an
   output node or edge that was a list of length one in the source is replaced
   by its single element and a list of any other length stays a sequence, for
   properties of value-map/element-map mappings and for properties read
   through the properties accessor of vertex and edge objects alike. *)
C10_Original == [][C10DictStep /\ C10ObjStep(TRUE)]_vars

(* C10 as amended: a property value taken from a value-map/element-map mapping
   that is a list of length one is replaced by its single element and any
   other value is kept; property values read through the properties accessor
   of vertex and edge objects are copied unchanged, lists of length one
   included. *)
C10_FlattenValueMapOnly == [][C10DictStep /\ C10ObjStep(FALSE)]_vars

\* a value-map vertex and edge with flattened and kept lists next to a vertex
\* object whose one-element list is kept
C10_Witness ==
    /\ Done /\ conv = "gremlin"
    /\ \E i \in 1..Len(out.nodes) :
          /\ "pair" \in DOMAIN out.nodes[i]
          /\ out.nodes[i]["name"] = S("Bob")
    /\ \E i \in 1..Len(out.nodes) :
          /\ "tags" \in DOMAIN out.nodes[i]
          /\ out.nodes[i]["name"] = L(<<S("Alice")>>)
    /\ \E i \in 1..Len(out.edges) :
          /\ "ws" \in DOMAIN out.edges[i]
          /\ out.edges[i]["w"] = I(5)
          /\ out.edges[i]["ws"] = L(<<I(5), I(6)>>)

EmptyGraph == [nodes |-> <<>>, edges |-> <<>>]

(* C11: for each converter (GQLConverter is CypherConverter), convert(None)
   and convert([]) do not raise, run to their return, and return
   {nodes: [], edges: []}. *)
C11_EmptyInput ==
    (conv \in Converters /\ input \in {None, L(<<>>)}) =>
        /\ pc # "raised"
        /\ Done => out = EmptyGraph
        /\ ~Done => ENABLED Next

\* convert(None) of the SPARQL converter has returned
C11_Witness == Done /\ conv = "sparql" /\ input = None /\ out = EmptyGraph

\* a value built from null, scalars, lists and mappings only
RECURSIVE IsJson(_)
IsJson(v) ==
    CASE v.t \in {"none", "int", "str"} -> TRUE
      [] v.t = "list" -> \A i \in 1..Len(v.v) : IsJson(v.v[i])
      [] v.t = "dict" -> \A i \in 1..Len(v.kv) : IsJson(v.kv[i].v)
      [] OTHER -> FALSE

(* C12: for every input built from null, scalars, lists and mappings, convert
   of every converter never raises and returns a nodes list and an edges
   list. *)
C12_NeverRaises ==
    (conv \in Converters /\ IsJson(input)) =>
        /\ pc # "raised"
        /\ Done => DOMAIN out = {"nodes", "edges"}

\* walking the segments meets a missing key, a value that is neither a mapping
\* nor a list, a non-numeric segment on a list, or an index beyond the list
RECURSIVE C13WalkFails(_, _)
C13WalkFails(data, segs) ==
    IF segs = <<>> THEN FALSE
    ELSE IF IsDict(data)
    THEN (IF HasKey(data, Head(segs)) THEN C13WalkFails(Get(data, Head(segs)), Tail(segs))
          ELSE TRUE)
    ELSE IF data.t = "list"
    THEN (IF ~IsDigit(Head(segs)) THEN TRUE
          ELSE IF DigitVal[Head(segs)] >= Len(data.v) THEN TRUE
          ELSE C13WalkFails(data.v[DigitVal[Head(segs)] + 1], Tail(segs)))
    ELSE TRUE

C13NodesPathFails ==
    /\ conv = "graphql" /\ Truthy(cfg.nodes_path)
    /\ C13WalkFails(GqData(input), PathSegments(cfg.nodes_path.s))

C13EdgesPathFails ==
    /\ conv = "graphql" /\ Truthy(cfg.edges_path)
    /\ C13WalkFails(GqData(input), PathSegments(cfg.edges_path.s))

C13Step ==
    /\ (C13NodesPathFails /\ pc = "nodes_path") => (pc' = "edges_path" /\ nodes' = <<>>)
    /\ (C13EdgesPathFails /\ pc = "edges_path") => (pc' = "auto" /\ edges' = <<>>)

C13Final ==
    /\ (Done /\ C13NodesPathFails) => out.nodes = <<>>
    /\ (Done /\ C13EdgesPathFails) => out.edges = <<>>

(* C13: with an explicit nodes_path or edges_path whose walk meets a missing
   key, a value that is neither a mapping nor a sequence, a non-numeric
   segment on a sequence or an index at or beyond the sequence's length,
   GraphQLConverter.convert does not raise at that path and returns no nodes
   (respectively no edges) for it. *)
C13_FailedPathIsEmpty == [][C13Step]_vars /\ []C13Final

\* an index beyond the end of a non-empty list, and a key missing for the edges
C13_Witness ==
    /\ Done /\ conv = "graphql"
    /\ cfg.nodes_path = S(Join(PathBeyond))
    /\ input.t = "dict" /\ input.addr = 331
    /\ Len(Get(Get(input, "data"), "items").v) >= 1
    /\ out.nodes = <<>>

\* what CypherConverter.convert returns for a result, by the values it holds
CyResultOf(result) ==
    [nodes |-> FirstPerKey(CyNodeOccOf(result), {}),
     edges |-> [i \in 1..Len(CyRelsMetOf(result)) |->
                   relationship_to_dict(CyRelsMetOf(result)[i])]]

\* a single record: a plain mapping, or a driver record exposing items or data
C16IsRecord(r) ==
    \/ IsDict(r)
    \/ r.t = "obj" /\ (HasAttr(r, "items") \/ HasAttr(r, "data"))

(* C16: CypherConverter.convert accepts a single record in place of an
   iterable of records: for every record r, convert(r) returns the same nodes
   and edges as convert([r]). *)
C16_SingleRecord ==
    (Done /\ conv = "cypher" /\ C16IsRecord(input)) => out = CyResultOf(L(<<input>>))

\* the mappings of the list a path leads to, walked from the response root
C17AtRoot(path) ==
    LET found == WalkPath(input, PathSegments(path.s))
    IN  IF found.t = "list" THEN SelectSeq(found.v, IsDict) ELSE <<>>

(* C17: with nodes_path (edges_path) given from the response root, envelope
   key included, as in the documented "data.users", convert on {"data": {...}}
   returns one node per mapping of the list at that path (one edge per mapping
   with both ends for edges_path). *)
C17_RootPath ==
    (Done /\ conv = "graphql" /\ input.t = "dict" /\ input.addr = 331) =>
        /\ cfg.nodes_path = S(Join(PathDataItems)) =>
              \A item \in Range(C17AtRoot(cfg.nodes_path)) :
                  \E i \in 1..Len(out.nodes) : out.nodes[i] = _item_to_node(item)
        /\ cfg.edges_path = S(Join(PathDataLinks)) =>
              out.edges = PathEdges(<<>>, C17AtRoot(cfg.edges_path))

(* C18: GrafeoBackend.execute returns, for every raw result of the database,
   the (nodes, edges) pair CypherConverter.convert returns for that result,
   path objects and lists/tuples of nodes and relationships included. *)
C18_GrafeoMatchesConverter ==
    (Done /\ conv = "cypher") => _process_result(input) = <<out.nodes, out.edges>>

\* a call of the fetch_schema under way has raised
C19Failed == db.failAt \in 1..ncall

\* C19: in every backend a failing introspection call is caught: fetch_schema
\* never raises, and once a call has failed it returns two empty type lists,
\* also when types had been collected before the failure.
C19_SchemaFailureCaught ==
    /\ spc # "raised"
    /\ (spc = "returned" /\ C19Failed) => sret = <<<<>>, <<>>>>

\* the number of calls of callback cb in the last notification
C20Count(cb) == Cardinality({i \in 1..Len(calls) : calls[i].cb = cb})

C20NodeStep ==
    selected_node' # selected_node =>
        IF selected_node' = None THEN calls' = <<>>
        ELSE \A cb \in Range(_node_click_callbacks) :
               /\ C20Count(cb)' = 1
               /\ \A i \in 1..Len(calls') :
                    calls'[i].args =
                        << IF "id" \in DOMAIN selected_node' THEN selected_node'["id"] ELSE None,
                           [k \in DOMAIN selected_node' \ {"id"} |-> selected_node'[k]] >>

C20EdgeStep ==
    selected_edge' # selected_edge =>
        IF selected_edge' = None THEN calls' = <<>>
        ELSE \A cb \in Range(_edge_click_callbacks) :
               /\ C20Count(cb)' = 1
               /\ \A i \in 1..Len(calls') : calls'[i].args = <<selected_edge'>>

\* C20: after any registrations, an assignment of a non-None value to
\* selected_node (selected_edge) calls every registered node (edge) callback
\* exactly once, with the id and the remaining attributes (with the edge
\* data); an assignment of None calls nothing.
C20_EachCallbackOnce == [][C20NodeStep /\ C20EdgeStep]_vars

\* what the running call and the waiting call have returned, if they are over
C14Result(st) == [pc |-> st.pc, out |-> st.out]

(* C14: two convert calls on one converter, interleaved at any step, each
   return what they return when made alone; no step of convert writes a
   field of the converter, and the converter, the only thing the calls have
   in common, holds nothing but its construction-time strings. *)
C14_InterleavedEqualsAlone ==
    /\ cfg = solo.cfg
    /\ conv = "sparql" => cfg.node_label_predicate.t \in {"str", "none"}
    /\ conv = "graphql" => /\ cfg.nodes_path.t \in {"str", "none"}
                           /\ cfg.edges_path.t \in {"str", "none"}
    /\ phase = "pair" =>
         /\ Finished(pc) => C14Result(Running) = solo.res[turn]
         /\ Finished(other.pc) => C14Result(other) = solo.res[3 - turn]

\* both interleaved calls are over, on different arguments, one of them with nodes
C14_Witness ==
    /\ phase = "pair" /\ Finished(pc) /\ Finished(other.pc)
    /\ solo.in[1] # solo.in[2]
    /\ pc = "done" /\ out.nodes # <<>>
    /\ other.pc = "done" /\ other.out.nodes # out.nodes

\* the node ids of a result, in order
C15Ids(res) ==
    IF res.pc = "done" THEN [i \in 1..Len(res.out.nodes) |-> res.out.nodes[i]["id"]] ELSE <<>>

(* C15: calls repeated on one converter with the same argument return node
   lists with the same ids in the same order, whether they are made one
   after the other or together. *)
C15_RepeatedCallsSameIds ==
    (phase = "pair" /\ solo.in[1] = solo.in[2]) =>
        /\ solo.res[1].pc = solo.res[2].pc
        /\ C15Ids(solo.res[1]) = C15Ids(solo.res[2])
        /\ Finished(pc) => (pc = solo.res[1].pc /\ C15Ids(C14Result(Running)) = C15Ids(solo.res[1]))
        /\ Finished(other.pc) =>
             (other.pc = solo.res[1].pc /\ C15Ids(C14Result(other)) = C15Ids(solo.res[1]))

\* the same argument was converted twice and gave two nodes both times
C15_Witness ==
    /\ phase = "pair" /\ solo.in[1] = solo.in[2]
    /\ solo.res[2].pc = "done" /\ Len(solo.res[2].out.nodes) >= 2

(* C22: when only one of nodes_path and edges_path is configured on the GraphQL
   converter, the other category is filled by auto-detection: with nodes_path
   alone every id-bearing mapping nested in an id-bearing mapping of the
   response still gives its reference edge, and with edges_path alone every
   id-bearing mapping auto-detection meets still gives its node. *)
C22_MixedPathAutoDetect ==
    (Done /\ conv = "graphql") =>
        /\ (Truthy(cfg.nodes_path) /\ ~Truthy(cfg.edges_path)) =>
              \A m \in Range(GqWalk(GqData(input))) :
                  (IsGqNode(m) /\ m \in Range(GqTree(GqData(input)))) =>
                      \A r \in Range(RefsIn(m.kv)) :
                          \E e \in Range(out.edges) : e = RefEdge(_item_to_node(m), r)
        /\ (~Truthy(cfg.nodes_path) /\ Truthy(cfg.edges_path)) =>
              \A m \in Range(GqWalk(GqData(input))) : C9HasNode(C9IdOf(m))

(* C23: in GraphQL auto-detection mode every mapping of the response that
   holds the configured id field, at any depth, also two or more levels below
   a mapping that is itself a node, is a node of the output. *)
C23_AutoDetectAnyDepth ==
    (Done /\ conv = "graphql" /\ ~Truthy(cfg.nodes_path) /\ ~Truthy(cfg.edges_path)) =>
        \A m \in Range(GqTree(GqData(input))) : IsGqNode(m) => C9HasNode(C9IdOf(m))

\* the string form of an endpoint: its nested id if it is a mapping with one,
\* else the raw value
C24End(v) == IF IsDict(v) /\ HasKey(v, "id") THEN Str(Get(v, "id")) ELSE Str(v)

C24Step ==
    (GrIsDictItem /\ HasKey(GrItem, "IN") /\ HasKey(GrItem, "OUT")) =>
        /\ pc' # "raised"
        /\ Len(edges') = Len(edges) + 1
        /\ edges'[Len(edges')]["source"] = S(C24End(Get(GrItem, "OUT")))
        /\ edges'[Len(edges')]["target"] = S(C24End(Get(GrItem, "IN")))

(* C24: for a mapping holding both IN and OUT the Gremlin converter emits
   exactly one edge, its source the string form of OUT's nested id or of OUT's
   raw value, its target derived the same way from IN, also when IN and OUT
   are raw strings or numbers. *)
C24_ElementMapEdge == [][C24Step]_vars

\* the additional scalar entries of a relationship given as a plain mapping
C27Extra(rel) ==
    {i \in 1..Len(rel.kv) :
        /\ rel.kv[i].k \notin {"source", "target", "label", "type"}
        /\ rel.kv[i].v.t \in {"int", "str"}}

(* C27: for a relationship given as a plain mapping the emitted edge holds,
   besides source, target and label, every additional scalar key of the
   mapping with its value. *)
C27_MappingRelationshipProps ==
    (Done /\ conv = "cypher" /\ Len(out.edges) = Len(CyRelsMet)) =>
        \A i \in 1..Len(CyRelsMet) :
            IsDict(CyRelsMet[i]) =>
                /\ out.edges[i] = relationship_to_dict(CyRelsMet[i])
                /\ \A j \in C27Extra(CyRelsMet[i]) :
                      /\ CyRelsMet[i].kv[j].k \in DOMAIN out.edges[i]
                      /\ out.edges[i][CyRelsMet[i].kv[j].k] = CyRelsMet[i].kv[j].v

\* the identifier by the stated priority: element_id attribute, id attribute,
\* `id` mapping key, identity of the object
C28Id(node) ==
    IF HasAttr(node, "element_id") THEN Str(node.a["element_id"])
    ELSE IF HasAttr(node, "id") THEN Str(node.a["id"])
    ELSE IF IsDict(node) /\ HasKey(node, "id") THEN Str(Get(node, "id"))
    ELSE Str(I(node.addr))

\* the identifiers of the node values met, first occurrences only, in order
C28Keys == FirstPerKey([i \in 1..Len(CyNodeOcc) |-> KV(CyNodeOcc[i].k, CyNodeOcc[i].k)], {})

(* C28: get_node_id gives the string form of element_id, else of the id
   attribute, else of the `id` key, else of the object's identity; the Cypher
   converter keeps one node per such identifier and the `id` field of the
   emitted node is that identifier. *)
C28_NodeIdIsGetNodeId ==
    (Done /\ conv = "cypher") =>
        /\ \A o \in Range(SelectSeq(CyMet, IsNodeOcc)) : get_node_id(o.v) = C28Id(o.v)
        /\ Len(out.nodes) = Len(C28Keys)
        /\ \A i \in 1..Len(C28Keys) : out.nodes[i]["id"] = S(C28Keys[i])

\* the objects of the label triples of a URI
C25LabelObjs(uri) ==
    {SpObj(b) : b \in {x \in Range(_iter_bindings(input)) :
                          /\ IsLabelPred(SpPred(x))
                          /\ SpSubj(x) = uri /\ SpSubj(x) # "" /\ SpObj(x) # ""}}

C25Final ==
    (Done /\ conv = "sparql") =>
        /\ out.nodes = NodeValues(nodes)
        /\ \A i \in 1..Len(nodes) :
              IF C25LabelObjs(nodes[i].k) # {}
              THEN nodes[i].v["label"].s \in C25LabelObjs(nodes[i].k)
              ELSE nodes[i].v["label"] = S(_extract_local_name(nodes[i].k))

\* a label triple adds nothing in either pass
C25Step ==
    /\ (conv = "sparql" /\ pc = "labels") => UNCHANGED <<nodes, edges>>
    /\ (SpTriple /\ IsLabelPred(SpPred(Head(recs)))) => UNCHANGED <<nodes, edges>>

(* C25: in the SPARQL converter the label of every node whose URI is the
   subject of a label-predicate triple is that triple's object, wherever the
   label triple stands and whether the node is created as subject or as URI
   object; every other node's label is the local name of its URI; label
   triples create no node, edge or property. *)
C25_SparqlLabels == [][C25Step]_vars /\ []C25Final

\* a binding without subject or without predicate
C26Missing(b) == SpSubj(b) = "" \/ SpPred(b) = ""

\* the label table the first pass builds from a binding list
RECURSIVE C26Labels(_, _)
C26Labels(lbls, bs) ==
    IF bs = <<>> THEN lbls
    ELSE IF IsLabelPred(SpPred(Head(bs))) /\ SpSubj(Head(bs)) # "" /\ SpObj(Head(bs)) # ""
    THEN C26Labels(Update(lbls, SpSubj(Head(bs)) :> SpObj(Head(bs))), Tail(bs))
    ELSE C26Labels(lbls, Tail(bs))

\* the nodes and edges the second pass builds from a binding list
RECURSIVE C26Triples(_, _, _, _)
C26Triples(ns, es, lbls, bs) ==
    IF bs = <<>> THEN [nodes |-> NodeValues(ns), edges |-> es]
    ELSE LET s == SpSubj(Head(bs))
             p == SpPred(Head(bs))
             o == SpObj(Head(bs))
             withSubj == SpEnsureNode(ns, s, lbls)
         IN  IF C26Missing(Head(bs)) \/ IsLabelPred(p) THEN C26Triples(ns, es, lbls, Tail(bs))
             ELSE IF o = "" THEN C26Triples(withSubj, es, lbls, Tail(bs))
             ELSE IF _is_uri(o)
             THEN C26Triples(SpEnsureNode(withSubj, o, lbls), Append(es, SpEdge(s, p, o)),
                             lbls, Tail(bs))
             ELSE C26Triples(SetNode(withSubj, s,
                                     Update(NodeAt(withSubj, s), _extract_local_name(p) :> S(o))),
                             es, lbls, Tail(bs))

\* what convert returns for a binding list
C26Result(bs) ==
    C26Triples(<<>>, <<>>,
               IF Truthy(cfg.node_label_predicate) THEN C26Labels(<<>>, bs) ELSE <<>>, bs)

\* the list without its i-th binding
C26Without(bs, i) == SubSeq(bs, 1, i - 1) \o SubSeq(bs, i + 1, Len(bs))

C26Final ==
    (Done /\ conv = "sparql") =>
        /\ out = C26Result(_iter_bindings(input))
        /\ \A i \in 1..Len(_iter_bindings(input)) :
              C26Missing(_iter_bindings(input)[i]) =>
                  out = C26Result(C26Without(_iter_bindings(input), i))

\* the step of the second pass on such a binding changes nothing and goes on
\* with the next binding
C26Step ==
    (SpTriple /\ C26Missing(Head(recs))) =>
        /\ UNCHANGED <<nodes, edges, labels>>
        /\ recs' = Tail(recs) /\ pc' = pc

(* C26: a SPARQL binding without subject value or without predicate value is
   skipped: it adds no node, edge or property, the bindings around it are
   processed as usual, and the output equals the output for the binding list
   without it. *)
C26_MissingBindingSkipped == [][C26Step]_vars /\ []C26Final

\* a binding without subject or predicate was followed by a binding that gave
\* two nodes and an edge
C26_Witness ==
    /\ Done /\ conv = "sparql"
    /\ Len(_iter_bindings(input)) = 2
    /\ C26Missing(_iter_bindings(input)[1])
    /\ ~C26Missing(_iter_bindings(input)[2])
    /\ Len(out.nodes) = 2 /\ Len(out.edges) = 1

(* C21: Graph(nodes=..., edges=...) and Graph.from_dict(data) expose the given
   node and edge lists as they are; a Graph built without data has empty
   lists; from_dict uses an empty list for a key the dictionary lacks. *)
C21_ConstructedData ==
    (qpc # "none" /\ executions = 0) =>
        /\ ctor.kind = "init" =>
              /\ graph_nodes = (IF ctor.nodes.given THEN ctor.nodes.v ELSE <<>>)
              /\ graph_edges = (IF ctor.edges.given THEN ctor.edges.v ELSE <<>>)
        /\ ctor.kind = "from_dict" =>
              /\ graph_nodes = (IF "nodes" \in DOMAIN ctor.data THEN ctor.data["nodes"] ELSE <<>>)
              /\ graph_edges = (IF "edges" \in DOMAIN ctor.data THEN ctor.data["edges"] ELSE <<>>)

\* from_dict was given two nodes and no edges key
C21_Witness ==
    /\ qpc = "idle" /\ executions = 0
    /\ ctor.kind = "from_dict" /\ DOMAIN ctor.data = {"nodes"}
    /\ Len(graph_nodes) = 2 /\ graph_nodes[1]["id"] = "a" /\ graph_edges = <<>>

C29Step ==
    qpc = "execute" =>
        /\ qpc' = "idle"
        /\ ~_backend.configured =>
              /\ _backend.script[executions].raises
              /\ _backend.script[executions].msg = "Either driver or uri must be provided"
        /\ IF _backend.script[executions].raises
           THEN /\ query_error' = _backend.script[executions].msg
                /\ UNCHANGED <<graph_nodes, graph_edges>>
           ELSE /\ query_error' = ""
                /\ graph_nodes' = _backend.script[executions].nodes
                /\ graph_edges' = _backend.script[executions].edges

(* C29: when the backend's execute raises during a query triggered from the
   widget (a Neo4jBackend with neither driver nor uri raises ValueError), the
   handler returns, query_error is the exception's message and nodes and
   edges are as before; when execute returns its pair of lists, query_error
   is empty and nodes and edges are the returned pair. *)
C29_ExecuteFailureReported == [][C29Step]_vars

\* the unconfigured backend was asked and the data given at construction is kept
C29_Witness ==
    /\ qpc = "idle" /\ executions >= 1
    /\ query_error = "Either driver or uri must be provided"
    /\ Len(graph_nodes) = 2

C30Step ==
    /\ (query_running' /\ ~query_running) =>
          (qpc = "idle" /\ qpc' = "execute" /\ _backend # None /\ _execute_query' # 0)
    /\ (qpc = "execute" /\ qpc' # "execute") => ~query_running'
    /\ (_execute_query' # _execute_query /\ (_execute_query' = 0 \/ _backend = None)) =>
          UNCHANGED <<graph_nodes, graph_edges, query_running, query_error, qpc, executions>>

(* C30: query_running is False whenever no execute call is in progress: it
   becomes True only when an execution starts with a backend configured and
   is False again when the handler returns, after a return and after a raise;
   a change of the trigger to 0, or without a backend, starts no execution
   and changes none of nodes, edges, query_running and query_error. *)
C30_QueryRunning == [][C30Step]_vars /\ [](qpc # "execute" => ~query_running)

\* an execution has raised, and the trigger was set back to 0 afterwards
C30_Witness ==
    /\ qpc = "idle" /\ executions >= 1 /\ query_error = "boom"
    /\ _execute_query = 0 /\ ~query_running

====
